---------------------------- MODULE Spec2Model ----------------------------
(***************************************************************************)
(* Escrow / wallet settlement of the servipal marketplace backend.         *)
(*                                                                         *)
(* The datastore tables, the pending-intent cache and the job queue are    *)
(* the state.  Every handler is a coroutine: it runs atomically between    *)
(* two awaited external calls, so a handler is modelled as a sequence of   *)
(* steps, one step per awaited datastore / cache call together with the    *)
(* Python code that leads to it.  A request in flight is a record of       *)
(* procs: the handler it runs (op), the next step (pc), its arguments      *)
(* (arg), its local variables (loc) and, once finished, what it returned   *)
(* or raised (res).                                                        *)
(*                                                                         *)
(* Rows carry the columns the handlers name.  A column never written is    *)
(* NONE (SQL NULL / Python None).  Money is in naira, as integers.         *)
(* Rows of audit_logs, notifications and order item tables are written by  *)
(* the handlers but read by none of them; they are not part of the state.  *)
(***************************************************************************)
EXTENDS Integers, Sequences, FiniteSets, TLC

VARIABLES
    wallets,                \* table wallets: user -> [balance, escrow_balance]
    transactions,           \* rows of table transactions, id = index
    orders,                 \* rows of the order tables, id = index
    pending,                \* pending-intent cache: key -> staged intent
    rq_jobs,                \* the RQ queue: jobs with their retry budget
    platform_commissions,   \* sum of commission_amount over platform_commissions
    disputes,               \* rows of table disputes, id = index
    escrow_agreements,      \* rows of table escrow_agreements, id = index
    escrow_agreement_parties, \* rows of table escrow_agreement_parties
    escrow_completion_proposals, \* rows of table escrow_completion_proposals
    withdrawals,            \* rows of table withdrawals
    materialized,           \* history per tx_ref: generated, order rows, holds
    procs,                  \* requests and jobs in flight
    returned,               \* history: the call that ended last
    calls                   \* number of requests started so far

vars == << wallets, transactions, orders, pending, rq_jobs,
           platform_commissions, disputes, escrow_agreements,
           escrow_agreement_parties, escrow_completion_proposals,
           withdrawals, materialized, procs, returned, calls >>

NONE == "None"

----------------------------------------------------------------------------
(* Bounds of the model                                                     *)

\* requests and job runs started in one behaviour of payment confirmation
MaxCalls == 4

\* requests started in one behaviour of the order lifecycle
MaxOrderCalls == 2

\* requests started in one behaviour of an escrow agreement
MaxEscrowCalls == 2

\* requests started in one behaviour on a wallet
MaxWalletCalls == 4

\* the withdrawal ids an approval is asked for
MaxWithdrawals == 2

\* requests started in one behaviour of the composite ledger operations
MaxLedgerCalls == 2

\* requests to the delivery lifecycle handlers in one behaviour
MaxDeliveryCalls == 2

\* the resolve_dispute requests of a behaviour of concurrent resolutions
MaxResolveCalls == 3

\* requests and jobs that can be in flight at the same time: the slots of
\* the server and of the workers, taken in this order
ProcOrder == << "p1", "p2" >>

Procs == { ProcOrder[i] : i \in 1..Len(ProcOrder) }

Users == {"cust", "vend", "disp"}

\* amounts a quote or a gateway report can carry
Amounts == {2000, 4000}

\* a tx_ref is a prefix and the uuid part; the uuid generator hands out
\* one value per prefix here, and two for top-ups
Refs ==
    { <<"DEL-", 1>>, <<"FOOD-", 1>>, <<"TOPUP-", 1>>, <<"TOPUP-", 2>>,
      <<"LAUNDRY-", 1>>, <<"PRODUCT-", 1>> }

\* a payload without tx_ref, and a reference no prefix rule matches
NoRef == <<"", 0>>
OtherRef == <<"PAY-", 1>>

\* the history of a tx_ref no quote has generated yet
Unused == [ orders |-> 0, holds |-> 0, issued |-> FALSE ]

----------------------------------------------------------------------------
(* Program constants                                                       *)

\* Retry(max=5, ...) of the enqueued materialization job
RetryMax == 5

\* vendor / dispatch share of a settled amount, in percent (0.85)
VendorSharePct == 85

----------------------------------------------------------------------------
(* The datastore as one value, so that a step is a function of it          *)

DB ==
    [ wallets |-> wallets, transactions |-> transactions, orders |-> orders,
      pending |-> pending, rq_jobs |-> rq_jobs,
      platform_commissions |-> platform_commissions, disputes |-> disputes,
      escrow_agreements |-> escrow_agreements,
      escrow_agreement_parties |-> escrow_agreement_parties,
      escrow_completion_proposals |-> escrow_completion_proposals,
      withdrawals |-> withdrawals, materialized |-> materialized,
      fcm_tokens |-> {}, outage |-> FALSE, refusal |-> "raises" ]

\* table fcm_tokens as a read finds it: the users that have a row.  The
\* table is written by register_fcm_token, which is no handler of the model,
\* so a read of it finds any of these sets of rows
FcmTables == SUBSET {"cust", "vend", "rider"}

fcm_tokens(D, rows) == [D EXCEPT !.fcm_tokens = rows]

\* the datastore as a call finds it when the service cannot be reached or
\* the statement times out: the call raises and writes nothing
Outage == [DB EXCEPT !.outage = TRUE]

\* rows inserted, wallet mutations applied and status columns written by
\* one run of a handler, and wallet calls of the run that raised (history of
\* the run)
NoEff == [ orders |-> 0, txs |-> 0, wallet |-> 0, writes |-> 0, raised |-> 0 ]

NoIntent == [ tx_ref |-> NoRef ]

\* what a request found when it arrived (history of the run): the wallets,
\* the recorded commission, the row it is about and the status of the
\* transaction of that row
NoSnap ==
    [ wallets |-> << >>, platform_commissions |-> 0, row |-> << >>,
      tx_status |-> NONE, parties |-> << >> ]

\* what a handler is called with; supabase is the datastore client, which a
\* route receives from Depends(get_supabase_client).  alone is history: no
\* other run has been in flight since this one started
NoArg ==
    [ ref |-> NoRef, paid |-> 0, job |-> 0, supabase |-> "AsyncClient",
      oid |-> 0, uid |-> NONE,
      action |-> NONE, amount |-> 0, order_type |-> NONE, did |-> 0,
      resolution |-> NONE, aid |-> 0, proposal_id |-> 0, confirm |-> FALSE,
      parties |-> << >>, pre |-> NONE, snap |-> NoSnap, rider_id |-> NONE,
      invite_code |-> 0, alone |-> FALSE, amount_type |-> NONE,
      withdrawal_id |-> 0 ]

NoLoc ==
    [ pending |-> NoIntent, tx_ref |-> NoRef, order_id |-> 0, tx_id |-> 0,
      amount |-> 0,
      from_user_id |-> NONE, to_user_id |-> NONE, status |-> NONE,
      dispute_id |-> 0, agreement_id |-> 0, i |-> 0 ]

Idle ==
    [ op |-> "idle", pc |-> "done", arg |-> NoArg, loc |-> NoLoc,
      res |-> NONE, eff |-> NoEff ]

Call(op, pc, arg) ==
    [ op |-> op, pc |-> pc, arg |-> arg, loc |-> NoLoc, res |-> NONE,
      eff |-> NoEff ]

\* a finished handler: what it returned or the exception it raised
Return(l, D, res) ==
    [ l |-> [l EXCEPT !.pc = "done", !.res = res], D |-> D ]

Goto(l, D, pc) ==
    [ l |-> [l EXCEPT !.pc = pc], D |-> D ]

Errors ==
    { "HTTP_400", "HTTP_401", "HTTP_403", "HTTP_404", "HTTP_500",
      "KeyError", "NameError", "ValueError", "TypeError", "APIError",
      "AttributeError" }

IsError(res) == res \in Errors

----------------------------------------------------------------------------
(* Stored procedures and constraints of the datastore                      *)

\* the procedure without its refusal (a variant for comparison)
update_wallet_balance_unchecked(D, p_user_id, p_delta, p_field) ==
    [ ok |-> TRUE,
      D |-> [D EXCEPT !.wallets[p_user_id][p_field] = @ + p_delta] ]

\* rpc update_wallet_balance(p_user_id, p_delta, p_field): one atomic
\* statement; it raises, and changes nothing, when the result is negative
update_wallet_balance(D, p_user_id, p_delta, p_field) ==
    LET new == D.wallets[p_user_id][p_field] + p_delta IN
    IF new < 0
    THEN [ ok |-> FALSE, D |-> D ]
    ELSE [ ok |-> TRUE,
           D |-> [D EXCEPT !.wallets[p_user_id][p_field] = new] ]

\* the body of an insert, an update or an rpc leaves the client as JSON,
\* written by json.dumps of the standard library: it writes values of these
\* Python types and raises TypeError for a value of any other type (Decimal,
\* datetime, UUID), before the request is sent
JsonTypes == {"str", "int", "float", "bool", "NoneType"}

\* json.dumps(body) returns: every value of the body is of a type it writes
json_serializable(types) == types \subseteq JsonTypes

\* transactions.tx_ref carries a unique constraint: a second row with the
\* same tx_ref is refused
tx_ref_unique(D, tx_ref) ==
    \A i \in 1..Len(D.transactions) : D.transactions[i].tx_ref # tx_ref

\* supabase.table("transactions").select("id").eq("tx_ref", tx_ref)
select_tx_by_ref(D, tx_ref) ==
    { i \in 1..Len(D.transactions) : D.transactions[i].tx_ref = tx_ref }

NoTx ==
    [ tx_ref |-> NoRef, amount |-> 0, from_user_id |-> NONE,
      to_user_id |-> NONE, order_id |-> 0, transaction_type |-> NONE,
      status |-> NONE ]

NoOrder ==
    [ table |-> NONE, customer_id |-> NONE, vendor_id |-> NONE,
      sender_id |-> NONE, rider_id |-> NONE, dispatch_id |-> NONE,
      order_status |-> NONE, status |-> NONE, payment_status |-> NONE,
      escrow_status |-> NONE, grand_total |-> 0, delivery_fee |-> 0,
      amount_due_dispatch |-> 0 ]

----------------------------------------------------------------------------
(* app/utils/redis_utils.py: the pending-intent cache                      *)

\* f"pending_delivery_{tx_ref}" and its siblings
pending_key(prefix, tx_ref) == << prefix, tx_ref >>

save_pending(D, key, data) ==
    [D EXCEPT !.pending =
        [ k \in DOMAIN D.pending \cup {key} |->
            IF k = key THEN data ELSE D.pending[k] ]]

\* the staged intent, or NoIntent (None) when the key is absent
get_pending(D, key) ==
    IF key \in DOMAIN D.pending THEN D.pending[key] ELSE NoIntent

delete_pending(D, key) ==
    [D EXCEPT !.pending =
        [ k \in DOMAIN D.pending \ {key} |-> D.pending[k] ]]

\* app/utils/commission.py: the share of the order type, or ValueError
get_commission_rate(order_type) ==
    IF order_type \in {"DELIVERY", "FOOD", "LAUNDRY", "PRODUCT"}
    THEN [ ok |-> TRUE, rate |-> VendorSharePct ]
    ELSE [ ok |-> FALSE, rate |-> 0 ]

\* amount * rate, rate being a percentage
Share(amount, pct) == (amount * pct) \div 100

----------------------------------------------------------------------------
(* Steps shared by the handlers: one awaited datastore call each           *)

\* table(...).insert(row).execute() on an order table; order_resp.data[0]["id"]
insert_order(l, D, row, next) ==
    [ l |-> [l EXCEPT !.pc = next, !.loc.order_id = Len(D.orders) + 1,
                      !.eff.orders = @ + 1],
      D |-> [D EXCEPT !.orders = Append(@, row),
                      !.materialized[l.arg.ref].orders = @ + 1] ]

\* table("transactions").insert(row).execute(); a refused insert raises
insert_transaction(l, D, row, next, except) ==
    IF tx_ref_unique(D, row.tx_ref)
    THEN [ l |-> [l EXCEPT !.pc = next, !.eff.txs = @ + 1],
           D |-> [D EXCEPT !.transactions = Append(@, row)] ]
    ELSE Goto(l, D, except)

\* the call with p_field fixed to escrow_balance (a variant for comparison)
rpc_on_escrow_balance_only(l, D, user, delta, field, next, except) ==
    LET r == update_wallet_balance(D, user, delta, "escrow_balance") IN
    IF ~D.outage /\ r.ok
    THEN [ l |-> [l EXCEPT !.pc = next, !.eff.wallet = @ + 1], D |-> r.D ]
    ELSE Goto([l EXCEPT !.eff.raised = @ + 1], D, except)

\* rpc("update_wallet_balance", ...).execute(); a refused update raises
rpc_update_wallet_balance(l, D, user, delta, field, next, except) ==
    LET r == update_wallet_balance(D, user, delta, field) IN
    IF ~D.outage /\ r.ok
    THEN [ l |-> [l EXCEPT !.pc = next, !.eff.wallet = @ + 1], D |-> r.D ]
    ELSE Goto([l EXCEPT !.eff.raised = @ + 1], D, except)

\* the escrow hold of a materialization, counted per tx_ref
hold_in_escrow(l, D, user, amount, next, except) ==
    LET r == rpc_update_wallet_balance(l, D, user, amount, "escrow_balance",
                                       next, except) IN
    IF r.l.pc = next
    THEN [ l |-> r.l,
           D |-> [r.D EXCEPT !.materialized[l.arg.ref].holds = @ + 1] ]
    ELSE r

\* app/utils/audit.py: the awaited insert of a row of audit_logs, a table
\* no handler reads; the handler answers once the insert has returned
log_audit_event(l, D, res) == Return(l, D, res)

\* the audit insert that ends the try block of a materialization: the run
\* returns res when the datastore answers, and takes the except branch
\* when the call raises
audit_in_try(l, D, res, except) ==
    IF D.outage THEN Goto(l, D, except) ELSE log_audit_event(l, D, res)

\* the value bound to the parameter supabase answers .table() and .rpc()
\* when it is an AsyncClient; a starlette Request has neither attribute
is_client(l) == l.arg.supabase = "AsyncClient"

\* the exception a datastore call of the run raises
call_error(l) == IF is_client(l) THEN "APIError" ELSE "AttributeError"

\* a datastore call inside a try block: the call r when the client answers,
\* the except branch otherwise
in_try(l, D, r, except) ==
    IF is_client(l) THEN r
    ELSE Goto([l EXCEPT !.eff.raised = @ + 1], D, except)

----------------------------------------------------------------------------
(* app/services/payment_service.py                                         *)

process_successful_delivery_payment(l, D) ==
    LET pending_key_ == pending_key("pending_delivery_", l.arg.ref)
        tx_ref == l.arg.ref
        paid_amount == l.arg.paid
        p == l.loc.pending
    IN
    CASE l.pc = "get_pending" ->
            LET got == get_pending(D, pending_key_) IN
            IF got = NoIntent THEN Return(l, D, NONE)
            ELSE IF paid_amount # got.delivery_fee
                 THEN Goto([l EXCEPT !.loc.pending = got], D, "mismatch")
                 ELSE Goto([l EXCEPT !.loc.pending = got], D, "insert_order")
      [] l.pc = "mismatch" ->
            Return(l, delete_pending(D, pending_key_), NONE)
      [] l.pc = "insert_order" ->
            in_try(l, D,
                insert_order(l, D,
                    [NoOrder EXCEPT !.table = "delivery_orders",
                        !.sender_id = p.sender_id,
                        !.grand_total = p.delivery_fee,
                        !.amount_due_dispatch =
                            Share(p.delivery_fee,
                                  get_commission_rate("DELIVERY").rate),
                        !.order_status = "PAID_NEEDS_RIDER",
                        !.payment_status = "PAID",
                        !.escrow_status = "HELD"],
                    "hold"),
                "except")
      [] l.pc = "hold" ->
            hold_in_escrow(l, D, p.sender_id, p.delivery_fee,
                           "insert_tx", "except")
      [] l.pc = "insert_tx" ->
            insert_transaction(l, D,
                [NoTx EXCEPT !.tx_ref = tx_ref, !.amount = p.delivery_fee,
                    !.from_user_id = p.sender_id, !.to_user_id = NONE,
                    !.order_id = l.loc.order_id,
                    !.transaction_type = "DELIVERY_FEE", !.status = "HELD"],
                "delete_pending", "except")
      [] l.pc = "delete_pending" ->
            Goto(l, delete_pending(D, pending_key_), "log_audit_event")
      [] l.pc = "log_audit_event" -> audit_in_try(l, D, NONE, "except")
      [] l.pc = "except" ->
            Return(l, delete_pending(D, pending_key_), call_error(l))

process_successful_food_payment(l, D) ==
    LET pending_key_ == pending_key("pending_food_", l.arg.ref)
        tx_ref == l.arg.ref
        paid_amount == l.arg.paid
        p == l.loc.pending
    IN
    CASE l.pc = "get_pending" ->
            LET got == get_pending(D, pending_key_) IN
            IF got = NoIntent THEN Return(l, D, NONE)
            ELSE IF "order_data" \notin DOMAIN got
                 THEN Return([l EXCEPT !.loc.pending = got], D, "KeyError")
                 ELSE Goto([l EXCEPT !.loc.pending = got], D, "select_existing")
      [] l.pc = "select_existing" ->
            IF ~is_client(l) THEN Return(l, D, call_error(l))
            ELSE IF select_tx_by_ref(D, tx_ref) # {}
            THEN Goto(l, D, "existing")
            ELSE IF paid_amount # p.grand_total
                 THEN Goto(l, D, "mismatch")
                 ELSE Goto(l, D, "insert_order")
      [] l.pc = "existing" ->
            Return(l, delete_pending(D, pending_key_), "already_processed")
      [] l.pc = "mismatch" ->
            Return(l, delete_pending(D, pending_key_), "amount_mismatch")
      [] l.pc = "insert_order" ->
            insert_order(l, D,
                [NoOrder EXCEPT !.table = "food_orders",
                    !.customer_id = p.customer_id, !.vendor_id = p.vendor_id,
                    !.delivery_fee = p.order_data.delivery_fee,
                    !.grand_total = p.grand_total,
                    !.order_status = "PENDING",
                    !.payment_status = "PAID",
                    !.escrow_status = "HELD"],
                "hold")
      [] l.pc = "hold" ->
            hold_in_escrow(l, D, p.customer_id, p.grand_total,
                           "insert_tx", "except")
      [] l.pc = "insert_tx" ->
            insert_transaction(l, D,
                [NoTx EXCEPT !.tx_ref = tx_ref, !.amount = p.grand_total,
                    !.from_user_id = p.customer_id,
                    !.to_user_id = p.vendor_id,
                    !.order_id = l.loc.order_id,
                    !.transaction_type = "FOOD_ORDER", !.status = "HELD"],
                "delete_pending", "except")
      [] l.pc = "delete_pending" ->
            Goto(l, delete_pending(D, pending_key_), "log_audit_event")
      [] l.pc = "log_audit_event" -> audit_in_try(l, D, "success", "except")
      [] l.pc = "except" ->
            Return(l, delete_pending(D, pending_key_), call_error(l))

\* the two reads of the wallet serve the audit record only; the first of
\* them is the first datastore call of the try block
process_successful_topup_payment(l, D) ==
    LET pending_key_ == pending_key("pending_topup_", l.arg.ref)
        tx_ref == l.arg.ref
        paid_amount == l.arg.paid
        p == l.loc.pending
    IN
    CASE l.pc = "get_pending" ->
            LET got == get_pending(D, pending_key_) IN
            IF got = NoIntent THEN Return(l, D, NONE)
            ELSE IF paid_amount # got.amount
                 THEN Goto([l EXCEPT !.loc.pending = got], D, "mismatch")
                 ELSE Goto([l EXCEPT !.loc.pending = got], D, "credit")
      [] l.pc = "mismatch" ->
            Return(l, delete_pending(D, pending_key_), NONE)
      [] l.pc = "credit" ->
            in_try(l, D,
                rpc_update_wallet_balance(l, D, p.user_id, paid_amount,
                                          "balance", "insert_tx", "except"),
                "except")
      [] l.pc = "insert_tx" ->
            insert_transaction(l, D,
                [NoTx EXCEPT !.tx_ref = tx_ref, !.amount = paid_amount,
                    !.from_user_id = p.user_id, !.to_user_id = p.user_id,
                    !.transaction_type = "TOP_UP", !.status = "COMPLETED"],
                "delete_pending", "except")
      [] l.pc = "delete_pending" ->
            Return(l, delete_pending(D, pending_key_), NONE)
      [] l.pc = "except" ->
            Return(l, delete_pending(D, pending_key_), call_error(l))

\* the function takes three parameters: a call with a fourth argument
\* raises TypeError before the body runs.  It takes no datastore client
\* and the module binds no name supabase: the first datastore call of the
\* body raises NameError, outside the try
process_successful_product_payment(l, D) ==
    LET pending_key_ == pending_key("pending_product_", l.arg.ref) IN
    CASE l.pc = "TypeError" -> Return(l, D, "TypeError")
      [] l.pc = "get_pending" ->
            LET got == get_pending(D, pending_key_) IN
            IF got = NoIntent THEN Return(l, D, NONE)
            ELSE Return([l EXCEPT !.loc.pending = got], D, "NameError")

\* payment_service.py defines no process_successful_laundry_payment; the
\* handler as the sequence every materialization handler follows: the
\* intent is looked up, an absent intent ends the run, a paid amount other
\* than the quoted total discards the intent, then the order row, the
\* escrow hold and the HELD transaction are written and the intent is
\* deleted; an exception deletes the intent and is raised again
process_successful_laundry_payment(l, D) ==
    LET pending_key_ == pending_key("pending_laundry_", l.arg.ref)
        tx_ref == l.arg.ref
        paid_amount == l.arg.paid
        p == l.loc.pending
    IN
    CASE l.pc = "get_pending" ->
            LET got == get_pending(D, pending_key_) IN
            IF got = NoIntent THEN Return(l, D, NONE)
            ELSE IF paid_amount # got.grand_total
                 THEN Goto([l EXCEPT !.loc.pending = got], D, "mismatch")
                 ELSE Goto([l EXCEPT !.loc.pending = got], D, "insert_order")
      [] l.pc = "mismatch" ->
            Return(l, delete_pending(D, pending_key_), NONE)
      [] l.pc = "insert_order" ->
            in_try(l, D,
                insert_order(l, D,
                    [NoOrder EXCEPT !.table = "laundry_orders",
                        !.customer_id = p.customer_id,
                        !.vendor_id = p.vendor_id,
                        !.delivery_fee = p.delivery_fee,
                        !.grand_total = p.grand_total,
                        !.order_status = "PENDING",
                        !.payment_status = "PAID",
                        !.escrow_status = "HELD"],
                    "hold"),
                "except")
      [] l.pc = "hold" ->
            hold_in_escrow(l, D, p.customer_id, p.grand_total,
                           "insert_tx", "except")
      [] l.pc = "insert_tx" ->
            insert_transaction(l, D,
                [NoTx EXCEPT !.tx_ref = tx_ref, !.amount = p.grand_total,
                    !.from_user_id = p.customer_id,
                    !.to_user_id = p.vendor_id,
                    !.order_id = l.loc.order_id,
                    !.transaction_type = "LAUNDRY_ORDER", !.status = "HELD"],
                "delete_pending", "except")
      [] l.pc = "delete_pending" ->
            Return(l, delete_pending(D, pending_key_), NONE)
      [] l.pc = "except" ->
            Return(l, delete_pending(D, pending_key_), call_error(l))

----------------------------------------------------------------------------
(* app/routes/payment_route.py and the RQ queue of app/worker.py           *)

startswith(tx_ref, prefix) == tx_ref[1] = prefix

\* the handler the tx_ref prefix selects, or NONE
webhook_handler(tx_ref) ==
    IF startswith(tx_ref, "DEL-") THEN "process_successful_delivery_payment"
    ELSE IF startswith(tx_ref, "FOOD-") THEN "process_successful_food_payment"
    ELSE IF startswith(tx_ref, "TOPUP-") THEN "process_successful_topup_payment"
    ELSE IF startswith(tx_ref, "LAUNDRY-")
         THEN "process_successful_laundry_payment"
    ELSE IF startswith(tx_ref, "PRODUCT-")
         THEN "process_successful_product_payment"
    ELSE NONE

\* the call with the datastore client as the fourth argument of the job
\* (a variant for comparison)
enqueue_with_client(D, handler, tx_ref, paid_amount, flw_ref, request) ==
    [D EXCEPT !.rq_jobs = Append(@,
        [ handler |-> handler,
          args |-> << tx_ref, paid_amount, flw_ref, "AsyncClient" >>,
          tx_ref |-> tx_ref, paid_amount |-> paid_amount,
          status |-> "queued", retries_left |-> RetryMax ])]

\* queue.enqueue(handler, tx_ref, paid_amount, flw_ref, request,
\* retry=Retry(max=5)): the job, its positional arguments in args
enqueue(D, handler, tx_ref, paid_amount, flw_ref, request) ==
    [D EXCEPT !.rq_jobs = Append(@,
        [ handler |-> handler,
          args |-> << tx_ref, paid_amount, flw_ref, request >>,
          tx_ref |-> tx_ref, paid_amount |-> paid_amount,
          status |-> "queued", retries_left |-> RetryMax ])]

\* data.get("id") of the payload
FlwRef == "FLW-REF"

\* settings.FLW_SECRET_HASH
FLW_SECRET_HASH == "secret-hash"

\* a header value with a character above 0x7f: the server decodes the
\* bytes of a header as latin-1
NonAscii == { "forg\\xe9d-hash" }

\* str.isascii()
isascii(a) == a \notin NonAscii

\* hmac.compare_digest(a, b): a TypeError when the header is absent (None),
\* and when one of two str holds a character that is not ASCII
compare_digest(a, b) ==
    IF a = NONE \/ b = NONE THEN "TypeError"
    ELSE IF ~isascii(a) \/ ~isascii(b) THEN "TypeError"
    ELSE IF a = b THEN "True" ELSE "False"

\* what the request says about itself, kept with the run
signature_case(signature) ==
    CASE signature = NONE -> "signature_absent"
      [] signature = FLW_SECRET_HASH -> NONE
      [] signature \in NonAscii -> "signature_non_ascii"
      [] OTHER -> "signature_mismatch"

\* the part of flutterwave_webhook that precedes its first datastore call
webhook_entry(signature, event, status, tx_ref) ==
    IF compare_digest(signature, FLW_SECRET_HASH) = "TypeError"
    THEN "TypeError"
    ELSE IF compare_digest(signature, FLW_SECRET_HASH) = "False"
    THEN "HTTP_401"
    ELSE IF event # "charge.completed" \/ status # "successful"
         THEN "ignored"
    ELSE IF tx_ref = NoRef THEN "error"
    ELSE "select_existing"

\* the webhook without its select on transactions (a variant for
\* comparison)
webhook_without_existing_check(l, D) ==
    LET tx_ref == l.arg.ref
        handler == webhook_handler(tx_ref)
    IN
    CASE l.pc = "select_existing" ->
            IF handler = NONE
            THEN Return(l, D, "unknown_transaction_type")
            ELSE Return(l, enqueue(D, handler, tx_ref, l.arg.paid,
                                   FlwRef, "Request"),
                        "queued_with_retry")

\* the part of the webhook from its first datastore call on
flutterwave_webhook(l, D) ==
    LET tx_ref == l.arg.ref
        handler == webhook_handler(tx_ref)
    IN
    CASE l.pc = "select_existing" ->
            IF select_tx_by_ref(D, tx_ref) # {}
            THEN Return(l, D, "already_processed")
            ELSE IF handler = NONE
                 THEN Return(l, D, "unknown_transaction_type")
                 ELSE Return(l, enqueue(D, handler, tx_ref, l.arg.paid,
                                        FlwRef, "Request"),
                             "queued_with_retry")

\* RQ after the job function returned or raised: a failed job with retries
\* left is queued again
job_ended(D, job, res) ==
    IF job = 0 THEN D
    ELSE IF ~IsError(res)
         THEN [D EXCEPT !.rq_jobs[job].status = "finished"]
    ELSE IF D.rq_jobs[job].retries_left > 0
         THEN [D EXCEPT !.rq_jobs[job].status = "queued",
                        !.rq_jobs[job].retries_left = @ - 1]
    ELSE [D EXCEPT !.rq_jobs[job].status = "failed"]

----------------------------------------------------------------------------
(* Actions                                                                 *)

\* the datastore, the cache and the queue after a step; the run of a job
\* that ended is reported to the queue in the same step
Commit(p, r, runs) ==
    LET D == IF r.l.pc = "done" THEN job_ended(r.D, r.l.arg.job, r.l.res)
             ELSE r.D
    IN
    /\ procs' = [runs EXCEPT ![p] = IF r.l.pc = "done" THEN Idle ELSE r.l]
    /\ returned' = IF r.l.pc = "done" THEN r.l ELSE returned
    /\ wallets' = D.wallets
    /\ transactions' = D.transactions
    /\ orders' = D.orders
    /\ pending' = D.pending
    /\ rq_jobs' = D.rq_jobs
    /\ platform_commissions' = D.platform_commissions
    /\ disputes' = D.disputes
    /\ escrow_agreements' = D.escrow_agreements
    /\ escrow_agreement_parties' = D.escrow_agreement_parties
    /\ escrow_completion_proposals' = D.escrow_completion_proposals
    /\ withdrawals' = D.withdrawals
    /\ materialized' = D.materialized

Apply(p, r) == Commit(p, r, procs)

\* the runs in flight when another one starts: none of them is alone
Overlapped ==
    [ q \in Procs |-> IF procs[q] = Idle THEN Idle
                      ELSE [procs[q] EXCEPT !.arg.alone = FALSE] ]

\* the first slot that runs nothing
Free(p) ==
    /\ procs[p] = Idle
    /\ \A i, j \in 1..Len(ProcOrder) :
            (ProcOrder[j] = p /\ i < j) => procs[ProcOrder[i]] # Idle

Running(p, op) == procs[p].op = op

\* a request arrives: its handler runs up to its first awaited call
StartWithin(p, l, max) ==
    /\ Free(p)
    /\ calls < max
    /\ calls' = calls + 1
    /\ Apply(p, [ l |-> l, D |-> DB ])

\* the same, with the history of whether the run overlaps another
StartTracked(p, l, max) ==
    /\ Free(p)
    /\ calls < max
    /\ calls' = calls + 1
    /\ Commit(p, [ l |-> [l EXCEPT !.arg.alone = \A q \in Procs :
                                                    procs[q] = Idle],
                   D |-> DB ], Overlapped)

Start(p, l) == StartWithin(p, l, MaxCalls)

Step(p, r) ==
    /\ calls' = calls
    /\ Apply(p, r)

\* tx_ref = f"DEL-{uuid.uuid4().hex[:12].upper()}" and its siblings: the
\* value is generated once and for all, whatever becomes of its intent
uuid4(D, tx_ref) == [D EXCEPT !.materialized[tx_ref].issued = TRUE]

\* the tx_refs the quotes have generated so far, staged still or expired:
\* the ones the gateway can report a charge for
Issued == { r \in Refs : materialized[r].issued }

\* the tx_refs a report of the gateway has named: the report is being
\* served, or has left a job or found a transaction
Named ==
    { r \in Refs : \/ \E p \in Procs : procs[p].arg.ref = r
                   \/ ~tx_ref_unique(DB, r)
                   \/ \E j \in 1..Len(rq_jobs) : rq_jobs[j].tx_ref = r }

\* the uuid part of a fresh tx_ref: a value never generated before, which
\* nothing names yet
Fresh(prefix) == { r \in Refs \ (Issued \cup Named) : r[1] = prefix }

\* a request that is served within one step: what it leaves in the
\* datastore and the cache, and what it answers
Served(p, l, D, res) ==
    /\ Free(p)
    /\ calls < MaxCalls
    /\ calls' = calls + 1
    /\ Apply(p, Return(l, D, res))

\* app/services/delivery_service.py: the quote is staged under a new tx_ref
initiate_delivery_payment(p, sender_id, delivery_fee) ==
    \E tx_ref \in Fresh("DEL-") :
        Served(p,
            [Call("initiate_delivery_payment", "save_pending",
                  [NoArg EXCEPT !.uid = sender_id, !.amount = delivery_fee])
                EXCEPT !.loc.tx_ref = tx_ref],
            save_pending(uuid4(DB, tx_ref),
                pending_key("pending_delivery_", tx_ref),
                [ sender_id |-> sender_id,
                  delivery_data |-> [ delivery_type |-> "STANDARD" ],
                  delivery_fee |-> delivery_fee, tx_ref |-> tx_ref ]),
            "success")

\* the checkouts: the number of items of the cart (none, or one that is in
\* stock) and the delivery fee, which is pickup_and_delivery_charge of the
\* vendor when the option is VENDOR_DELIVERY and 0 otherwise
Checkouts == { << 0, 2000 >>, << 1, 0 >> }

\* the checkout of food_service.py and of laundry_service.py: a cart item
\* is dumped with its item_id, a UUID, which json.dumps refuses, so that
\* save_pending raises before it stores anything; the empty cart is staged
\* with the delivery charge as its total, and the call that follows
\* (get_customer_contact_info() without arguments in food_service.py, the
\* key store_name of the vendor in laundry_service.py) raises
initiate_payment(p, op, prefix, key, customer_id, vendor_id, items, fee) ==
    LET l == Call(op, "save_pending",
                  [NoArg EXCEPT !.uid = customer_id, !.amount = fee])
    IN
    IF items > 0 THEN Served(p, l, DB, "HTTP_500")
    ELSE \E tx_ref \in Fresh(prefix) :
            Served(p, [l EXCEPT !.loc.tx_ref = tx_ref],
                save_pending(uuid4(DB, tx_ref), pending_key(key, tx_ref),
                    [ customer_id |-> customer_id, vendor_id |-> vendor_id,
                      items |-> << >>, subtotal |-> 0,
                      delivery_fee |-> fee, grand_total |-> fee,
                      delivery_option |->
                        IF fee = 0 THEN "PICKUP" ELSE "VENDOR_DELIVERY",
                      tx_ref |-> tx_ref ]),
                "HTTP_500")

\* app/services/food_service.py
initiate_food_payment(p, customer_id, vendor_id, items, fee) ==
    initiate_payment(p, "initiate_food_payment", "FOOD-", "pending_food_",
                     customer_id, vendor_id, items, fee)

\* app/services/laundry_service.py
initiate_laundry_payment(p, customer_id, vendor_id, items, fee) ==
    initiate_payment(p, "initiate_laundry_payment", "LAUNDRY-",
                     "pending_laundry_", customer_id, vendor_id, items, fee)

\* app/services/product_service.py: the module imports nothing, so the
\* first statement of the try block reads the unbound name supabase and the
\* except clause reads the unbound name HTTPException
initiate_product_payment(p, buyer_id) ==
    Served(p, Call("initiate_product_payment", "select_item",
                   [NoArg EXCEPT !.uid = buyer_id]),
           DB, "NameError")

MAX_WALLET_LIMIT == 50000

MIN_TOP_UP == 1000

\* app/services/wallet_service.py: the balance is read in one awaited call
\* and the intent is staged in a later one; get_customer_contact_info() is
\* then called without arguments and raises
initiate_wallet_top_up(l, D) ==
    CASE l.pc = "select_wallet" ->
            IF D.wallets[l.arg.uid].balance + l.arg.amount > MAX_WALLET_LIMIT
            THEN Return(l, D, "HTTP_400")
            ELSE Goto(l, D, "save_pending")
      [] l.pc = "save_pending" ->
            LET tx_ref == CHOOSE r \in Fresh("TOPUP-") :
                            \A o \in Fresh("TOPUP-") : r[2] <= o[2]
            IN
            Return([l EXCEPT !.loc.tx_ref = tx_ref],
                   save_pending(uuid4(D, tx_ref),
                        pending_key("pending_topup_", tx_ref),
                        [ user_id |-> l.arg.uid, amount |-> l.arg.amount,
                          tx_ref |-> tx_ref ]),
                   "HTTP_500")

\* a top-up below the minimum is refused before the first awaited call
initiate_wallet_top_up_request(p, user_id, amount) ==
    LET l == Call("initiate_wallet_top_up", "select_wallet",
                  [NoArg EXCEPT !.uid = user_id, !.amount = amount])
    IN
    Start(p, IF amount < MIN_TOP_UP
             THEN [l EXCEPT !.pc = "done", !.res = "HTTP_400"]
             ELSE l)

initiate_wallet_top_up_step(p) ==
    /\ Running(p, "initiate_wallet_top_up")
    /\ procs[p].pc = "save_pending" => Fresh("TOPUP-") # {}
    /\ Step(p, initiate_wallet_top_up(procs[p], DB))

\* the cache drops a key whose time to live (1800 s) has run out
pending_expires(key) ==
    /\ key \in DOMAIN pending
    /\ pending' = delete_pending(DB, key).pending
    /\ UNCHANGED << wallets, transactions, orders, rq_jobs,
                    platform_commissions, disputes, escrow_agreements,
                    escrow_agreement_parties, escrow_completion_proposals,
                    withdrawals, materialized, procs,
                    returned, calls >>

\* the gateway delivers a webhook
webhook_request(p, signature, event, status, tx_ref, paid_amount) ==
    LET entry == webhook_entry(signature, event, status, tx_ref)
        l == Call("flutterwave_webhook", entry,
                  [NoArg EXCEPT !.ref = tx_ref, !.paid = paid_amount,
                                !.pre = signature_case(signature)])
    IN
    Start(p, IF entry = "select_existing" THEN l
             ELSE [l EXCEPT !.pc = "done", !.res = entry,
                            !.arg = [NoArg EXCEPT !.pre = l.arg.pre]])

webhook_step(p) ==
    /\ Running(p, "flutterwave_webhook")
    /\ Step(p, flutterwave_webhook(procs[p], DB))

\* the positional parameters of a job function
parameters(handler) ==
    IF handler = "process_successful_product_payment"
    THEN << "tx_ref", "paid_amount", "flw_ref" >>
    ELSE << "tx_ref", "paid_amount", "flw_ref", "supabase", "request" >>

\* the argument a call binds to the parameter, NONE when it binds none
bound(handler, args, name) ==
    LET at == { i \in 1..Len(parameters(handler)) :
                    parameters(handler)[i] = name /\ i <= Len(args) }
    IN IF at = {} THEN NONE ELSE args[CHOOSE i \in at : TRUE]

\* an RQ worker takes a queued job and calls its function with the
\* positional arguments of the job: job.func(*job.args); a call with more
\* arguments than the function has parameters raises TypeError
rq_worker(p, job) ==
    LET handler == rq_jobs[job].handler
        args == rq_jobs[job].args
    IN
    /\ Free(p)
    /\ job \in 1..Len(rq_jobs)
    /\ rq_jobs[job].status = "queued"
    /\ procs' = [procs EXCEPT ![p] =
            Call(handler,
                 IF Len(args) > Len(parameters(handler))
                 THEN "TypeError" ELSE "get_pending",
                 [NoArg EXCEPT !.ref = bound(handler, args, "tx_ref"),
                               !.paid = bound(handler, args, "paid_amount"),
                               !.supabase = bound(handler, args, "supabase"),
                               !.job = job])]
    /\ rq_jobs' = [rq_jobs EXCEPT ![job].status = "started"]
    /\ UNCHANGED << wallets, transactions, orders, pending,
                    platform_commissions, disputes, escrow_agreements,
                    escrow_agreement_parties, escrow_completion_proposals,
                    withdrawals, materialized, returned >>

\* a job run, counted among the calls of the behaviour
rq_perform_job(p, job) ==
    /\ calls < MaxCalls
    /\ calls' = calls + 1
    /\ rq_worker(p, job)

delivery_payment_step(p) ==
    /\ Running(p, "process_successful_delivery_payment")
    /\ Step(p, process_successful_delivery_payment(procs[p], DB))

food_payment_step(p) ==
    /\ Running(p, "process_successful_food_payment")
    /\ Step(p, process_successful_food_payment(procs[p], DB))

topup_payment_step(p) ==
    /\ Running(p, "process_successful_topup_payment")
    /\ Step(p, process_successful_topup_payment(procs[p], DB))

product_payment_step(p) ==
    /\ Running(p, "process_successful_product_payment")
    /\ Step(p, process_successful_product_payment(procs[p], DB))

laundry_payment_step(p) ==
    /\ Running(p, "process_successful_laundry_payment")
    /\ Step(p, process_successful_laundry_payment(procs[p], DB))

----------------------------------------------------------------------------
(* Payment confirmation: quotes, webhook deliveries and materialization    *)

\* the totals the quotes come to
Quotes == {2000}

Payers == {"cust"}

Payees == {"vend"}

NoRows == << >>

\* the tx_ref of a delivery order that was paid and materialized earlier
EarlierRef == << "DEL-", 0 >>

\* the datastore holds the earlier order as its materialization wrote it:
\* the order row, the total held in the customer's escrow and the HELD
\* transaction
InitWebhook ==
    /\ wallets = [ u \in Users |->
            [ balance |-> 0,
              escrow_balance |-> IF u = "cust" THEN 2000 ELSE 0 ] ]
    /\ transactions =
            << [NoTx EXCEPT !.tx_ref = EarlierRef, !.amount = 2000,
                    !.from_user_id = "cust", !.order_id = 1,
                    !.transaction_type = "DELIVERY_FEE",
                    !.status = "HELD"] >>
    /\ orders =
            << [NoOrder EXCEPT !.table = "delivery_orders",
                    !.sender_id = "cust", !.grand_total = 2000,
                    !.amount_due_dispatch =
                        Share(2000, get_commission_rate("DELIVERY").rate),
                    !.order_status = "PAID_NEEDS_RIDER",
                    !.payment_status = "PAID", !.escrow_status = "HELD"] >>
    /\ pending = [ k \in {} |-> NoIntent ]
    /\ rq_jobs = NoRows
    /\ platform_commissions = 0
    /\ disputes = NoRows
    /\ escrow_agreements = NoRows
    /\ escrow_agreement_parties = NoRows
    /\ escrow_completion_proposals = NoRows
    /\ withdrawals = NoRows
    /\ materialized = [ r \in Refs |-> Unused ]
    /\ procs = [ p \in Procs |-> Idle ]
    /\ returned = Idle
    /\ calls = 0

\* the tx_refs a report can carry: one of each prefix
Reported == { r \in Refs : r[2] = 1 }

\* the requests that reach the webhook: a report of a charge on a tx_ref
\* of any prefix, and one of each kind the entry checks turn away
WebhookDeliveries ==
    { << FLW_SECRET_HASH, "charge.completed", "successful", r, a >> :
            r \in Reported \cup {OtherRef}, a \in Amounts }
    \cup { << h, "charge.completed", "successful", r, 2000 >> :
            h \in {"forged-hash", NONE} \cup NonAscii,
            r \in Issued \cup {OtherRef} }
    \cup { << FLW_SECRET_HASH, "charge.completed", "successful", EarlierRef,
              2000 >>,
           << FLW_SECRET_HASH, "charge.completed", "failed", OtherRef, 2000 >>,
           << FLW_SECRET_HASH, "transfer.completed", "successful", OtherRef,
              2000 >>,
           << FLW_SECRET_HASH, "charge.completed", "successful", NoRef,
              2000 >> }

\* the amounts a top-up is asked with
TopUps == {500, 2000}

NextWebhook ==
    \/ \E p \in Procs, u \in Payers, a \in Quotes :
            initiate_delivery_payment(p, u, a)
    \/ \E p \in Procs, u \in Payers, v \in Payees, c \in Checkouts :
            initiate_food_payment(p, u, v, c[1], c[2])
    \/ \E p \in Procs, u \in Payers, v \in Payees, c \in Checkouts :
            initiate_laundry_payment(p, u, v, c[1], c[2])
    \/ \E p \in Procs, u \in Payers : initiate_product_payment(p, u)
    \/ \E p \in Procs, u \in Payers, a \in TopUps :
            initiate_wallet_top_up_request(p, u, a)
    \/ \E p \in Procs : initiate_wallet_top_up_step(p)
    \/ \E k \in DOMAIN pending : pending_expires(k)
    \/ \E p \in Procs, d \in WebhookDeliveries :
            webhook_request(p, d[1], d[2], d[3], d[4], d[5])
    \/ \E p \in Procs : webhook_step(p)
    \/ \E p \in Procs, j \in 1..Len(rq_jobs) : rq_perform_job(p, j)
    \/ \E p \in Procs : delivery_payment_step(p)
    \/ \E p \in Procs : food_payment_step(p)
    \/ \E p \in Procs : topup_payment_step(p)
    \/ \E p \in Procs : product_payment_step(p)
    \/ \E p \in Procs : laundry_payment_step(p)

SpecWebhook == InitWebhook /\ [][NextWebhook]_vars

----------------------------------------------------------------------------
(* Properties of payment confirmation                                      *)

Materializers ==
    { "process_successful_delivery_payment", "process_successful_food_payment",
      "process_successful_topup_payment",
      "process_successful_product_payment" }

OrderMaterializers == Materializers \ { "process_successful_topup_payment" }

\* the run that ended last is a run of a materialization handler
Materialized(l) == l.pc = "done" /\ l.op \in Materializers

\* the run found its pending intent
Found(l) == l.loc.pending # NoIntent

\* the amount the intent was staged with
StagedAmount(l) ==
    CASE l.op = "process_successful_delivery_payment" ->
            l.loc.pending.delivery_fee
      [] l.op = "process_successful_topup_payment" -> l.loc.pending.amount
      [] OTHER -> l.loc.pending.grand_total

TxCount(tx_ref) == Cardinality(select_tx_by_ref(DB, tx_ref))

IntentKey(l) ==
    pending_key(
        CASE l.op = "process_successful_delivery_payment" -> "pending_delivery_"
          [] l.op = "process_successful_food_payment" -> "pending_food_"
          [] l.op = "process_successful_topup_payment" -> "pending_topup_"
          [] OTHER -> "pending_product_",
        l.arg.ref)

\* C1: once a materialization run that found the intent of a tx_ref, with
\* the paid amount equal to the staged one, has ended, the tx_ref has
\* exactly one order row, exactly one escrow hold and exactly one
\* transaction row, however many webhook deliveries and job runs of the
\* tx_ref interleave.
C1_ExactlyOneMaterialization ==
    ( /\ Materialized(returned)
      /\ returned.op \in OrderMaterializers
      /\ Found(returned)
      /\ returned.arg.paid = StagedAmount(returned) )
    => /\ materialized[returned.arg.ref].orders = 1
       /\ materialized[returned.arg.ref].holds = 1
       /\ TxCount(returned.arg.ref) = 1

\* what a run of the delivery handler that found the intent with the paid
\* amount equal to the quote ends with: its first datastore call raises,
\* and the tx_ref has no order row, no hold and no transaction row
DeliveryRunMaterializesNothing ==
    ( /\ Materialized(returned)
      /\ returned.op = "process_successful_delivery_payment"
      /\ Found(returned)
      /\ returned.arg.paid = StagedAmount(returned) )
    => /\ returned.res = "AttributeError"
       /\ materialized[returned.arg.ref].orders = 0
       /\ materialized[returned.arg.ref].holds = 0
       /\ TxCount(returned.arg.ref) = 0

\* C5: a materialization run that finds the intent staged with another
\* amount than the paid one inserts no order row and no transaction row,
\* applies no wallet mutation, and leaves the intent deleted.
C5_MismatchDeletesIntent ==
    ( /\ Materialized(returned)
      /\ Found(returned)
      /\ returned.arg.paid # StagedAmount(returned) )
    => /\ returned.eff = NoEff
       /\ IntentKey(returned) \notin DOMAIN pending

\* C6: a materialization run that finds no pending intent returns without
\* raising, inserts no order row and no transaction row and applies no
\* wallet mutation.
C6_AbsentIntentNoOp ==
    ( Materialized(returned) /\ ~Found(returned) )
    => /\ ~IsError(returned.res)
       /\ returned.eff = NoEff

\* the handlers that take the datastore client as a parameter do so
AbsentIntentNoOpOfFiveParameters ==
    ( /\ Materialized(returned)
      /\ ~Found(returned)
      /\ returned.op # "process_successful_product_payment" )
    => /\ returned.res = NONE
       /\ returned.eff = NoEff

\* a run of the delivery handler has found no intent and has returned
AbsentDeliveryIntentSeen ==
    /\ Materialized(returned)
    /\ ~Found(returned)
    /\ returned.op = "process_successful_delivery_payment"
    /\ returned.res = NONE

\* the call of the product handler has raised with no intent in the cache
ProductCallRaisedSeen ==
    /\ Materialized(returned)
    /\ returned.op = "process_successful_product_payment"
    /\ returned.res = "TypeError"
    /\ IntentKey(returned) \notin DOMAIN pending

----------------------------------------------------------------------------
(* Order lifecycle: app/services/food_service.py, laundry_service.py and   *)
(* product_service.py.  product_orders names its parties buyer_id and      *)
(* seller_id; they are the columns customer_id and vendor_id of a row here.*)

\* rpc release_order_payment(p_customer_id, p_vendor_id, p_full_amount):
\* one atomic statement.  The full amount leaves the customer's escrow, the
\* vendor's share enters the vendor's balance and the remainder is recorded
\* as platform commission; it raises, and changes nothing, when the escrow
\* does not cover the amount
release_order_payment(D, p_customer_id, p_vendor_id, p_full_amount) ==
    LET share == Share(p_full_amount, VendorSharePct) IN
    IF D.wallets[p_customer_id].escrow_balance < p_full_amount
    THEN [ ok |-> FALSE, D |-> D ]
    ELSE [ ok |-> TRUE,
           D |-> [D EXCEPT
                    !.wallets[p_customer_id].escrow_balance =
                        @ - p_full_amount,
                    !.wallets[p_vendor_id].balance = @ + share,
                    !.platform_commissions = @ + (p_full_amount - share)] ]

\* table("transactions").select(...).eq("order_id", order_id)
select_tx_by_order(D, order_id) ==
    { i \in 1..Len(D.transactions) : D.transactions[i].order_id = order_id }

\* what the caller sees of raise HTTPException(code): food and laundry
\* re-raise it ("reraise") or wrap it with every other exception into a 500
\* ("wrap"); in product_service.py the name HTTPException is unbound
Raised(mode, code) ==
    CASE mode = "reraise" -> code
      [] mode = "wrap" -> "HTTP_500"
      [] OTHER -> "NameError"

\* what the caller sees of the final return: product_service.py builds its
\* responses from names that are unbound too
Responded(mode, res) == IF mode = "unbound" THEN "NameError" ELSE res

\* .update({column: value}).eq("id", ...).execute(): one status column written
Wrote(l) == [l EXCEPT !.eff.writes = @ + 1]

\* the services whose handlers record what they did: food_service.py
\* imports log_audit_event and awaits it after the last update of an
\* order; laundry_service.py and product_service.py return after the update
audited(table) == table = "food_orders"

\* the last update of a handler on an order, and what follows it
last_update(l, D, table, res) ==
    IF audited(table) THEN Goto(Wrote(l), D, "log_audit_event")
    ELSE Return(Wrote(l), D, res)

\* .single() on the transaction of the order: the row when there is exactly
\* one, an exception otherwise
single_tx(l, D, order_id, next, raised) ==
    LET rows == select_tx_by_order(D, order_id) IN
    IF Cardinality(rows) # 1 THEN Return(l, D, raised)
    ELSE LET i == CHOOSE i \in rows : TRUE
             tx == D.transactions[i] IN
         Goto([l EXCEPT !.loc.tx_id = i, !.loc.amount = tx.amount,
                        !.loc.from_user_id = tx.from_user_id,
                        !.loc.to_user_id = tx.to_user_id,
                        !.loc.status = tx.status], D, next)

\* table(name).select(...).eq("id", order_id).single(): the row of that
\* table with the id, NoOrder when the table has none (the call raises)
single_order(D, table, order_id) ==
    IF order_id \in 1..Len(D.orders) /\ D.orders[order_id].table = table
    THEN D.orders[order_id] ELSE NoOrder

\* the decision of the vendor on a PENDING order; the three services differ
\* in the table, in the status an accepted order takes and in how
\* exceptions surface
vendor_order_action(l, D, table, accepted, mode) ==
    LET order == single_order(D, table, l.arg.oid)
        failed == IF mode = "unbound" THEN "NameError" ELSE "HTTP_500"
    IN
    CASE l.pc = "select_order" ->
            IF order = NoOrder THEN Return(l, D, failed)
            ELSE IF order.vendor_id # l.arg.uid
            THEN Return(l, D, Raised(mode, "HTTP_403"))
            ELSE IF order.order_status # "PENDING"
            THEN Return(l, D, Raised(mode, "HTTP_400"))
            ELSE IF order.payment_status # "PAID"
            THEN Return(l, D, Raised(mode, "HTTP_400"))
            ELSE IF l.arg.action = "accept"
            THEN Goto([l EXCEPT !.loc.order_id = l.arg.oid], D, "accept")
            ELSE Goto([l EXCEPT !.loc.order_id = l.arg.oid], D, "select_tx")
      [] l.pc = "select_tx" ->
            single_tx(l, D, l.arg.oid, "debit_escrow", failed)
      [] l.pc = "debit_escrow" ->
            rpc_update_wallet_balance(l, D, l.loc.from_user_id,
                0 - l.loc.amount, "escrow_balance", "credit_balance", "except")
      [] l.pc = "credit_balance" ->
            rpc_update_wallet_balance(l, D, l.loc.from_user_id,
                l.loc.amount, "balance", "update_tx", "except")
      [] l.pc = "update_tx" ->
            Goto(Wrote(l),
                 [D EXCEPT !.transactions[l.loc.tx_id].status = "REFUNDED"],
                 "reject")
      [] l.pc = "accept" ->
            last_update(l,
                [D EXCEPT !.orders[l.arg.oid].order_status = accepted],
                table, Responded(mode, "success"))
      [] l.pc = "reject" ->
            last_update(l,
                [D EXCEPT !.orders[l.arg.oid].order_status = "CANCELLED"],
                table, Responded(mode, "success"))
      [] l.pc = "log_audit_event" ->
            log_audit_event(l, D, Responded(mode, "success"))
      [] OTHER -> Return(l, D, failed)

vendor_food_order_action(l, D) ==
    vendor_order_action(l, D, "food_orders", "PREPARING", "reraise")

vendor_laundry_order_action(l, D) ==
    vendor_order_action(l, D, "laundry_orders", "PREPARING", "reraise")

vendor_product_order_action(l, D) ==
    vendor_order_action(l, D, "product_orders", "ACCEPTED", "unbound")

\* the vendor marks an accepted order READY
vendor_mark_ready(l, D, table, accepted, mode) ==
    LET order == single_order(D, table, l.arg.oid) IN
    CASE l.pc = "select_order" ->
            IF order = NoOrder
            THEN Return(l, D, Raised(mode, "HTTP_500"))
            ELSE IF order.vendor_id # l.arg.uid
            THEN Return(l, D, Raised(mode, "HTTP_403"))
            ELSE IF order.order_status # accepted
            THEN Return(l, D, Raised(mode, "HTTP_400"))
            ELSE Goto(l, D, "update_order")
      [] OTHER ->
            Return(Wrote(l),
                   [D EXCEPT !.orders[l.arg.oid].order_status = "READY"],
                   Responded(mode, "success"))

vendor_mark_food_order_ready(l, D) ==
    vendor_mark_ready(l, D, "food_orders", "PREPARING", "wrap")

vendor_mark_laundry_order_ready(l, D) ==
    vendor_mark_ready(l, D, "laundry_orders", "PREPARING", "wrap")

vendor_mark_product_ready(l, D) ==
    vendor_mark_ready(l, D, "product_orders", "ACCEPTED", "unbound")

\* the same handler with neither status check (a variant for comparison)
confirm_without_status_checks(l, D, table) ==
    LET order == single_order(D, table, l.arg.oid)
        released == release_order_payment(D, l.arg.uid, order.vendor_id,
                                          l.loc.amount)
    IN
    CASE l.pc = "select_order" ->
            IF order = NoOrder THEN Return(l, D, "HTTP_500")
            ELSE IF order.customer_id # l.arg.uid THEN Return(l, D, "HTTP_403")
            ELSE Goto(l, D, "select_tx")
      [] l.pc = "select_tx" ->
            single_tx(l, D, l.arg.oid, "release", "HTTP_500")
      [] l.pc = "release" ->
            IF released.ok
            THEN Goto([l EXCEPT !.eff.wallet = @ + 1], released.D, "update_tx")
            ELSE Return([l EXCEPT !.eff.raised = @ + 1], D, "HTTP_500")
      [] l.pc = "update_tx" ->
            Goto(Wrote(l),
                 [D EXCEPT !.transactions[l.loc.tx_id].status = "RELEASED"],
                 "update_order")
      [] l.pc = "update_order" ->
            last_update(l,
                [D EXCEPT !.orders[l.arg.oid].order_status = "COMPLETED"],
                table, "success")
      [] OTHER -> log_audit_event(l, D, "success")

\* the customer confirms receipt: the one release of the held amount;
\* laundry_service.py repeats the food handler statement for statement on
\* its own table
customer_confirm_order(l, D, table) ==
    LET order == single_order(D, table, l.arg.oid)
        vendor_id == IF order.vendor_id # NONE THEN order.vendor_id
                     ELSE l.loc.to_user_id
        found == single_tx(l, D, l.arg.oid, "release", "HTTP_500")
        released == release_order_payment(D, l.arg.uid, vendor_id,
                                          l.loc.amount)
    IN
    CASE l.pc = "select_order" ->
            IF order = NoOrder THEN Return(l, D, "HTTP_500")
            ELSE IF order.customer_id # l.arg.uid THEN Return(l, D, "HTTP_403")
            ELSE IF order.order_status # "READY" THEN Return(l, D, "HTTP_400")
            ELSE Goto(l, D, "select_tx")
      [] l.pc = "select_tx" ->
            IF found.l.pc = "release" /\ found.l.loc.status = "RELEASED"
            THEN Return(found.l, D, "HTTP_400")
            ELSE found
      [] l.pc = "release" ->
            IF released.ok
            THEN Goto([l EXCEPT !.eff.wallet = @ + 1], released.D, "update_tx")
            ELSE Return([l EXCEPT !.eff.raised = @ + 1], D, "HTTP_500")
      [] l.pc = "update_tx" ->
            Goto(Wrote(l),
                 [D EXCEPT !.transactions[l.loc.tx_id].status = "RELEASED"],
                 "update_order")
      [] l.pc = "update_order" ->
            last_update(l,
                [D EXCEPT !.orders[l.arg.oid].order_status = "COMPLETED"],
                table, "success")
      [] OTHER -> log_audit_event(l, D, "success")

customer_confirm_food_order(l, D) ==
    customer_confirm_order(l, D, "food_orders")

customer_confirm_laundry_order(l, D) ==
    customer_confirm_order(l, D, "laundry_orders")

\* customer_confirm_product_order(order_id, customer_id) has no datastore
\* parameter: its first statement reads the unbound name supabase, and the
\* handler that catches the NameError raises through an unbound name again
customer_confirm_product_order(l, D) == Return(l, D, "NameError")

----------------------------------------------------------------------------
(* Disputes: app/services/dispute_service.py, app/utils/dispute_helpers.py *)

\* profiles whose user_type is ADMIN, MODERATOR or SUPER_ADMIN
Admins == {"admin"}

\* Python's a or b on two column values
Or(a, b) == IF a # NONE THEN a ELSE b

\* table_map.get(order_type)
table_map(order_type) ==
    CASE order_type = "DELIVERY" -> "delivery_orders"
      [] order_type = "PRODUCT" -> "product_orders"
      [] order_type = "FOOD" -> "food_orders"
      [] order_type = "LAUNDRY" -> "laundry_orders"
      [] OTHER -> NONE

\* the order with its column names normalised, or the exception raised
get_order(D, order_id, order_type) ==
    LET found == /\ order_id \in 1..Len(D.orders)
                 /\ D.orders[order_id].table = table_map(order_type)
        order == IF found THEN D.orders[order_id] ELSE NoOrder
    IN
    [ err |-> IF table_map(order_type) = NONE THEN "ValueError"
              ELSE IF ~found THEN "APIError" ELSE NONE,
      id |-> order_id,
      buyer_id |-> order.customer_id,
      seller_id |-> order.vendor_id,
      status |-> Or(order.order_status, order.status),
      payment_status |-> order.payment_status,
      amount |-> order.grand_total ]

\* "order_status" if "order_status" in table_name else "status": the text
\* order_status occurs in none of the four table names
status_field(table_name) == "status"

update_order_status(D, order_id, order_type, new_status) ==
    [D EXCEPT
        !.orders[order_id][status_field(table_map(order_type))] = new_status]

NoDispute ==
    [ order_id |-> 0, order_type |-> NONE, initiator_id |-> NONE,
      respondent_id |-> NONE, status |-> NONE, resolved_by_id |-> NONE ]

\* a party opens a dispute on an order
create_dispute(l, D) ==
    LET order == get_order(D, l.arg.oid, l.arg.order_type)
        id == Len(D.disputes) + 1
    IN
    CASE l.pc = "get_order" ->
            IF order.err # NONE THEN Return(l, D, order.err)
            ELSE IF order.status \notin {"COMPLETED", "READY", "ACCEPTED"}
            THEN Return(l, D, "HTTP_404")
            ELSE IF order.seller_id = NONE THEN Return(l, D, "KeyError")
            ELSE Goto([l EXCEPT !.loc.to_user_id = order.seller_id], D,
                      "insert_dispute")
      [] l.pc = "insert_dispute" ->
            Goto([l EXCEPT !.loc.dispute_id = id, !.eff.writes = @ + 1],
                 [D EXCEPT !.disputes = Append(@,
                    [NoDispute EXCEPT !.order_id = l.arg.oid,
                        !.order_type = l.arg.order_type,
                        !.initiator_id = l.arg.uid,
                        !.respondent_id = l.loc.to_user_id,
                        !.status = "OPEN"])],
                 "update_order_status")
      [] l.pc = "update_order_status" ->
            Goto(Wrote(l),
                 update_order_status(D, l.arg.oid, l.arg.order_type,
                                     ToString(l.loc.dispute_id)),
                 "log_audit_event")
      [] OTHER -> log_audit_event(l, D, "success")

\* notification_service.notify_user(user_id, ...) returns (TRUE) or raises
\* (FALSE): get_my_fcm_token reads the row of the user with .single(), which
\* raises when there is none; what sending the push raises is caught there
notify_user(D, user_id) == user_id \in D.fcm_tokens

\* the check with RESOLVED let through (a variant for comparison)
open_or_resolved(dispute_status) ==
    dispute_status \in {"OPEN", "UNDER_REVIEW", "ESCALATED", "RESOLVED"}

\* dispute.data["status"] in ["OPEN", "UNDER_REVIEW", "ESCALATED"]
open_for_resolution(dispute_status) ==
    dispute_status \in {"OPEN", "UNDER_REVIEW", "ESCALATED"}

\* "resolved_at": datetime.now().isoformat() (a variant for comparison)
resolved_at_isoformat == "str"

\* "resolved_at": datetime.now()
resolved_at == "datetime"

\* an admin resolves a dispute.  The handler has no try / except: what a
\* call raises reaches the caller as it is, after the writes made so far.
\* The update that would write RESOLVED carries resolved_at in its body: a
\* datetime, which the client cannot write as JSON, so the update raises
\* TypeError before it is sent and the handler ends there.  What follows in
\* the source: the ESCROW_AGREEMENT branch follows get_order, which raises
\* ValueError for that order type; after the resolution the initiator and
\* the respondent are notified, one awaited call each.
resolve_dispute(l, D) ==
    LET known == l.arg.did \in 1..Len(D.disputes)
        dispute == IF known THEN D.disputes[l.arg.did] ELSE NoDispute
        order == get_order(D, dispute.order_id, dispute.order_type)
        found == single_tx(l, D, order.id, "resolution", "APIError")
    IN
    CASE l.pc = "is_admin" ->
            IF l.arg.uid \notin Admins THEN Return(l, D, "HTTP_403")
            ELSE Goto(l, D, "select_dispute")
      [] l.pc = "select_dispute" ->
            IF ~known THEN Return(l, D, "APIError")
            ELSE IF ~open_for_resolution(dispute.status)
            THEN Return(l, D, "HTTP_400")
            ELSE Goto(l, D, "update_dispute")
      [] l.pc = "update_dispute" ->
            IF ~json_serializable({"str", resolved_at})
            THEN Return(l, D, "TypeError")
            ELSE Goto(Wrote(l),
                      [D EXCEPT !.disputes[l.arg.did].status = "RESOLVED",
                                !.disputes[l.arg.did].resolved_by_id = l.arg.uid],
                      "get_order")
      [] l.pc = "get_order" ->
            IF order.err # NONE THEN Return(l, D, order.err)
            ELSE Goto(l, D, "select_tx")
      [] l.pc = "select_tx" ->
            IF found.l.pc # "resolution" THEN found
            ELSE IF l.arg.resolution = "BUYER_FAVOR"
            THEN Goto(found.l, D, "refund_debit")
            ELSE IF l.arg.resolution = "SELLER_FAVOR"
            THEN Goto(found.l, D, "release_debit")
            ELSE Goto(found.l, D, "notify_initiator")
      [] l.pc = "refund_debit" ->
            rpc_update_wallet_balance(l, D, l.loc.from_user_id,
                0 - l.loc.amount, "escrow_balance", "refund_credit", "raise")
      [] l.pc = "refund_credit" ->
            rpc_update_wallet_balance(l, D, l.loc.from_user_id,
                l.loc.amount, "balance", "cancel_order", "raise")
      [] l.pc = "cancel_order" ->
            Goto(Wrote(l),
                 update_order_status(D, order.id, dispute.order_type,
                                     "CANCELLED"),
                 "notify_initiator")
      [] l.pc = "release_debit" ->
            rpc_update_wallet_balance(l, D, l.loc.from_user_id,
                0 - l.loc.amount, "escrow_balance", "release_credit", "raise")
      [] l.pc = "release_credit" ->
            rpc_update_wallet_balance(l, D, l.loc.to_user_id,
                l.loc.amount, "balance", "complete_order", "raise")
      [] l.pc = "complete_order" ->
            Goto(Wrote(l),
                 update_order_status(D, order.id, dispute.order_type,
                                     "COMPLETED"),
                 "notify_initiator")
      [] l.pc = "notify_initiator" ->
            IF notify_user(D, dispute.initiator_id)
            THEN Goto(l, D, "notify_respondent")
            ELSE Return(l, D, "APIError")
      [] l.pc = "notify_respondent" ->
            IF notify_user(D, dispute.respondent_id)
            THEN Return(l, D, "success")
            ELSE Return(l, D, "APIError")
      [] OTHER -> Return(l, D, "APIError")

----------------------------------------------------------------------------
(* Requests of the order lifecycle and of disputes                         *)

OrderRows(table) == { i \in 1..Len(orders) : orders[i].table = table }

\* the order was confirmed before this call: COMPLETED, its payment RELEASED
Confirmed(oid) ==
    /\ orders[oid].order_status = "COMPLETED"
    /\ \E i \in select_tx_by_order(DB, oid) :
            transactions[i].status = "RELEASED"

\* the wallets, the commission, the order and its transaction as a request
\* on order oid finds them
Found_by_request(oid) ==
    LET rows == select_tx_by_order(DB, oid) IN
    [ wallets |-> wallets, platform_commissions |-> platform_commissions,
      row |-> orders[oid],
      tx_status |-> IF rows = {} THEN NONE
                    ELSE transactions[CHOOSE i \in rows : TRUE].status ]

\* the table a handler of the order lifecycle selects its order from
HandlerTable(op) ==
    CASE op \in {"vendor_food_order_action", "vendor_mark_food_order_ready",
                 "customer_confirm_food_order"} -> "food_orders"
      [] op \in {"vendor_laundry_order_action",
                 "vendor_mark_laundry_order_ready",
                 "customer_confirm_laundry_order"} -> "laundry_orders"
      [] op \in {"vendor_product_order_action",
                 "vendor_mark_product_ready",
                 "customer_confirm_product_order"} -> "product_orders"
      [] OTHER -> "delivery_orders"

\* what a request of handler op on order oid finds: the order as the
\* handler's table holds it, NoOrder when the id is of another table
Found_by_handler(op, oid) ==
    [Found_by_request(oid) EXCEPT
        !.row = single_order(DB, HandlerTable(op), oid)]

\* no request is in flight
Alone == \A q \in Procs : procs[q] = Idle

\* no request is in flight, and none was while the call that ended last ran
Sequential == Alone /\ returned.arg.alone

\* a request to a handler of the order lifecycle; the server takes it
\* whatever else is in flight, and whatever table the order id is of
OrderCall(p, op, oid, uid, action) ==
    /\ StartTracked(p, Call(op, "select_order",
            [NoArg EXCEPT !.oid = oid, !.uid = uid, !.action = action,
                          !.pre = IF Confirmed(oid) THEN "confirmed"
                                  ELSE NONE,
                          !.snap = Found_by_handler(op, oid)]),
            MaxOrderCalls)

OrderStep(p, op, r) ==
    /\ Running(p, op)
    /\ Step(p, r)

vendor_food_order_action_request(p, oid, uid, action) ==
    OrderCall(p, "vendor_food_order_action", oid, uid, action)

vendor_food_order_action_step(p) ==
    OrderStep(p, "vendor_food_order_action",
              vendor_food_order_action(procs[p], DB))

vendor_laundry_order_action_request(p, oid, uid, action) ==
    OrderCall(p, "vendor_laundry_order_action", oid, uid,
              action)

vendor_laundry_order_action_step(p) ==
    OrderStep(p, "vendor_laundry_order_action",
              vendor_laundry_order_action(procs[p], DB))

vendor_product_order_action_request(p, oid, uid, action) ==
    OrderCall(p, "vendor_product_order_action", oid, uid,
              action)

vendor_product_order_action_step(p) ==
    OrderStep(p, "vendor_product_order_action",
              vendor_product_order_action(procs[p], DB))

vendor_mark_food_order_ready_request(p, oid, uid) ==
    OrderCall(p, "vendor_mark_food_order_ready", oid, uid, NONE)

vendor_mark_food_order_ready_step(p) ==
    OrderStep(p, "vendor_mark_food_order_ready",
              vendor_mark_food_order_ready(procs[p], DB))

vendor_mark_laundry_order_ready_request(p, oid, uid) ==
    OrderCall(p, "vendor_mark_laundry_order_ready", oid,
              uid, NONE)

vendor_mark_laundry_order_ready_step(p) ==
    OrderStep(p, "vendor_mark_laundry_order_ready",
              vendor_mark_laundry_order_ready(procs[p], DB))

vendor_mark_product_ready_request(p, oid, uid) ==
    OrderCall(p, "vendor_mark_product_ready", oid, uid, NONE)

vendor_mark_product_ready_step(p) ==
    OrderStep(p, "vendor_mark_product_ready",
              vendor_mark_product_ready(procs[p], DB))

customer_confirm_food_order_request(p, oid, uid) ==
    OrderCall(p, "customer_confirm_food_order", oid, uid, NONE)

customer_confirm_food_order_step(p) ==
    OrderStep(p, "customer_confirm_food_order",
              customer_confirm_food_order(procs[p], DB))

customer_confirm_laundry_order_request(p, oid, uid) ==
    OrderCall(p, "customer_confirm_laundry_order", oid, uid,
              NONE)

customer_confirm_laundry_order_step(p) ==
    OrderStep(p, "customer_confirm_laundry_order",
              customer_confirm_laundry_order(procs[p], DB))

customer_confirm_product_order_request(p, oid, uid) ==
    OrderCall(p, "customer_confirm_product_order", oid, uid,
              NONE)

customer_confirm_product_order_step(p) ==
    OrderStep(p, "customer_confirm_product_order",
              customer_confirm_product_order(procs[p], DB))

\* DisputeCreate.order_type of the order's own table
OrderTypeOf(table) ==
    CHOOSE t \in {"DELIVERY", "PRODUCT", "FOOD", "LAUNDRY"} :
        table_map(t) = table

OrderType(oid) == OrderTypeOf(orders[oid].table)

create_dispute_request(p, oid, uid) ==
    /\ oid \in 1..Len(orders)
    /\ StartTracked(p, Call("create_dispute", "get_order",
            [NoArg EXCEPT !.oid = oid, !.uid = uid,
                          !.order_type = OrderType(oid),
                          !.snap = Found_by_request(oid)]),
            MaxOrderCalls)

create_dispute_step(p) ==
    OrderStep(p, "create_dispute", create_dispute(procs[p], DB))

resolve_dispute_request(p, did, resolution, uid) ==
    /\ did \in 1..Len(disputes)
    /\ StartTracked(p, Call("resolve_dispute", "is_admin",
            [NoArg EXCEPT !.did = did, !.uid = uid, !.oid = disputes[did].order_id,
                          !.resolution = resolution,
                          !.pre = IF disputes[did].status = "RESOLVED"
                                  THEN "resolved" ELSE NONE,
                          !.snap = Found_by_request(disputes[did].order_id)]),
            MaxOrderCalls)

resolve_dispute_step(p) ==
    \E rows \in FcmTables :
        OrderStep(p, "resolve_dispute",
                  resolve_dispute(procs[p], fcm_tokens(DB, rows)))

----------------------------------------------------------------------------
(* The order lifecycle as a system.  It starts from paid orders as the     *)
(* materialization leaves them: order PENDING / PAID / HELD, one HELD       *)
(* transaction per order, the totals held in the customer's escrow.  Two    *)
(* orders of one customer, so that the escrow holds more than one order.    *)

SeedKinds ==
    { << "food_orders", "laundry_orders" >>,
      << "laundry_orders", "product_orders" >>,
      << "product_orders", "food_orders" >> }

SeedTotals == << 2000, 4000 >>

SeedPrefix(table) ==
    CASE table = "food_orders" -> "FOOD-"
      [] table = "laundry_orders" -> "LAUNDRY-"
      [] OTHER -> "PRODUCT-"

\* transaction_type of the row the materialization of the order inserts
SeedType(table) ==
    CASE table = "food_orders" -> "FOOD_ORDER"
      [] table = "laundry_orders" -> "LAUNDRY_ORDER"
      [] OTHER -> "PRODUCT_ORDER"

SeedOrder(table, total) ==
    [NoOrder EXCEPT !.table = table, !.customer_id = "cust",
        !.vendor_id = "vend", !.order_status = "PENDING",
        !.payment_status = "PAID", !.escrow_status = "HELD",
        !.grand_total = total]

SeedTx(i, table, total) ==
    [NoTx EXCEPT !.tx_ref = << SeedPrefix(table), i >>, !.amount = total,
        !.from_user_id = "cust", !.to_user_id = "vend", !.order_id = i,
        !.transaction_type = SeedType(table), !.status = "HELD"]

\* the status of the order when its dispute was opened: a product order
\* accepted, a food or laundry order marked ready
DisputableStatus(table) == IF table = "product_orders" THEN "ACCEPTED" ELSE "READY"

\* the order as create_dispute leaves it: the dispute id in column status
DisputedOrder(table, total, dispute_id) ==
    [SeedOrder(table, total) EXCEPT !.order_status = DisputableStatus(table),
                                    !.status = ToString(dispute_id)]

\* the dispute row create_dispute inserts for the order
SeedDispute(oid, order_type) ==
    [NoDispute EXCEPT !.order_id = oid, !.order_type = order_type,
        !.initiator_id = "cust", !.respondent_id = "vend", !.status = "OPEN"]

\* the dispute row as the update of resolve_dispute writes it: RESOLVED,
\* with the admin who resolved it.  No run of the handler gets that update
\* out, so a RESOLVED row is one the table holds from elsewhere
ResolvedDispute(oid, order_type) ==
    [SeedDispute(oid, order_type) EXCEPT !.status = "RESOLVED",
                                         !.resolved_by_id = "admin"]

\* the first order is as paid ("PENDING"), as the vendor's accept and
\* mark-ready leave it ("READY"), as create_dispute leaves it ("OPEN"), as
\* the customer's confirm and then create_dispute leave it ("COMPLETED"),
\* or disputed with the dispute row stored as RESOLVED ("RESOLVED")
SeedStages == {"PENDING", "READY", "OPEN", "COMPLETED", "RESOLVED"}

StagedOrder(table, total, stage) ==
    CASE stage = "PENDING" -> SeedOrder(table, total)
      [] stage = "READY" ->
            [SeedOrder(table, total) EXCEPT !.order_status = "READY"]
      [] stage = "COMPLETED" ->
            [DisputedOrder(table, total, 1) EXCEPT
                !.order_status = "COMPLETED"]
      [] OTHER -> DisputedOrder(table, total, 1)

\* the transaction of the first order: RELEASED once the order is confirmed
StagedTx(i, table, total, stage) ==
    IF i = 1 /\ stage = "COMPLETED"
    THEN [SeedTx(i, table, total) EXCEPT !.status = "RELEASED"]
    ELSE SeedTx(i, table, total)

\* the users that call the order handlers: the customer and the vendor
Parties == {"cust", "vend"}

Resolutions == {"BUYER_FAVOR", "SELLER_FAVOR", "COMPROMISE"}

InitOrders ==
    /\ \E k \in SeedKinds, stage \in SeedStages :
        /\ stage = "COMPLETED" => k[1] # "product_orders"
        /\ orders = << StagedOrder(k[1], SeedTotals[1], stage),
                       SeedOrder(k[2], SeedTotals[2]) >>
        /\ disputes = IF stage \in {"OPEN", "COMPLETED"}
                      THEN << SeedDispute(1, OrderTypeOf(k[1])) >>
                      ELSE IF stage = "RESOLVED"
                      THEN << ResolvedDispute(1, OrderTypeOf(k[1])) >>
                      ELSE NoRows
        /\ transactions =
                [ i \in 1..2 |-> StagedTx(i, k[i], SeedTotals[i], stage) ]
        /\ wallets = [ u \in Users |->
                [ balance |-> IF stage = "COMPLETED" /\ u = "vend"
                              THEN Share(SeedTotals[1], VendorSharePct) ELSE 0,
                  escrow_balance |->
                    IF u # "cust" THEN 0
                    ELSE IF stage = "COMPLETED" THEN SeedTotals[2]
                    ELSE SeedTotals[1] + SeedTotals[2] ] ]
        /\ platform_commissions =
                IF stage = "COMPLETED"
                THEN SeedTotals[1] - Share(SeedTotals[1], VendorSharePct)
                ELSE 0
    /\ pending = [ k \in {} |-> NoIntent ]
    /\ rq_jobs = NoRows
    /\ escrow_agreements = NoRows
    /\ escrow_agreement_parties = NoRows
    /\ escrow_completion_proposals = NoRows
    /\ withdrawals = NoRows
    /\ materialized = [ r \in Refs |-> Unused ]
    /\ procs = [ p \in Procs |-> Idle ]
    /\ returned = Idle
    /\ calls = 0

NextOrders ==
    \/ \E p \in Procs, oid \in 1..Len(orders), uid \in Parties,
          action \in {"accept", "reject"} :
            \/ vendor_food_order_action_request(p, oid, uid, action)
            \/ vendor_laundry_order_action_request(p, oid, uid, action)
            \/ vendor_product_order_action_request(p, oid, uid, action)
    \/ \E p \in Procs, oid \in 1..Len(orders), uid \in Parties :
            \/ vendor_mark_food_order_ready_request(p, oid, uid)
            \/ vendor_mark_laundry_order_ready_request(p, oid, uid)
            \/ vendor_mark_product_ready_request(p, oid, uid)
            \/ customer_confirm_food_order_request(p, oid, uid)
            \/ customer_confirm_laundry_order_request(p, oid, uid)
            \/ customer_confirm_product_order_request(p, oid, uid)
            \/ create_dispute_request(p, oid, uid)
    \/ \E p \in Procs, did \in 1..Len(disputes), r \in Resolutions,
          uid \in {"admin", "cust"} :
            resolve_dispute_request(p, did, r, uid)
    \/ \E p \in Procs :
            \/ vendor_food_order_action_step(p)
            \/ vendor_laundry_order_action_step(p)
            \/ vendor_product_order_action_step(p)
            \/ vendor_mark_food_order_ready_step(p)
            \/ vendor_mark_laundry_order_ready_step(p)
            \/ vendor_mark_product_ready_step(p)
            \/ customer_confirm_food_order_step(p)
            \/ customer_confirm_laundry_order_step(p)
            \/ customer_confirm_product_order_step(p)
            \/ create_dispute_step(p)
            \/ resolve_dispute_step(p)

SpecOrders == InitOrders /\ [][NextOrders]_vars

----------------------------------------------------------------------------
(* Properties of the order lifecycle and of disputes                       *)

ConfirmOps ==
    { "customer_confirm_food_order", "customer_confirm_laundry_order",
      "customer_confirm_product_order" }

\* the run l has neither applied a wallet mutation nor written a status
NoEffect(l) == l.eff.wallet = 0 /\ l.eff.writes = 0 /\ l.eff.txs = 0

\* C3: a confirm-receipt call that starts after the order was confirmed
\* (order COMPLETED, its transaction RELEASED) ends with an error, and at
\* no point of its run has it applied a wallet mutation or written a
\* status: balances, escrow balances and the transaction stay as they were.
C3_LaterConfirmFailsUnchanged ==
    /\ \A p \in Procs :
            (procs[p].op \in ConfirmOps /\ procs[p].arg.pre = "confirmed")
                => NoEffect(procs[p])
    /\ (returned.op \in ConfirmOps /\ returned.arg.pre = "confirmed")
            => (IsError(returned.res) /\ NoEffect(returned))

C3_Witness ==
    /\ returned.op \in ConfirmOps
    /\ returned.arg.pre = "confirmed"
    /\ returned.arg.uid = orders[returned.arg.oid].customer_id
    /\ returned.res = "HTTP_400"

Terminal(i) == transactions[i].status \in {"RELEASED", "REFUNDED"}

\* the step is a step of a request about the order
Targets(oid) ==
    \E p \in Procs :
        procs[p] # Idle /\ procs'[p] # procs[p] /\ procs[p].arg.oid = oid

\* C4: a transaction that is RELEASED or REFUNDED keeps its status, and no
\* step of a request about its order changes a wallet.
C4_TerminalTransactionFrozen ==
    [][ \A i \in 1..Len(transactions) :
            Terminal(i) =>
                /\ transactions'[i].status = transactions[i].status
                /\ Targets(transactions[i].order_id) => wallets' = wallets
      ]_vars

\* C9: a resolve_dispute call that starts on a dispute already RESOLVED
\* ends with an error, the 400 of the status check or the 403 of the admin
\* check, and at no point of its run has it changed a wallet, an order
\* status or a dispute field: the dispute stays as the call found it.
C9_LaterResolveFailsUnchanged ==
    /\ \A p \in Procs :
            (procs[p].op = "resolve_dispute" /\ procs[p].arg.pre = "resolved")
                => NoEffect(procs[p])
    /\ (returned.op = "resolve_dispute" /\ returned.arg.pre = "resolved")
            => /\ returned.res \in {"HTTP_400", "HTTP_403"}
               /\ NoEffect(returned)
               /\ disputes[returned.arg.did]
                    = ResolvedDispute(disputes[returned.arg.did].order_id,
                                      disputes[returned.arg.did].order_type)

C9_Witness ==
    /\ returned.op = "resolve_dispute"
    /\ returned.arg.pre = "resolved"
    /\ returned.arg.uid \in Admins
    /\ returned.res = "HTTP_400"

----------------------------------------------------------------------------
(* Escrow agreements: app/services/escrow_service.py.  Every handler wraps  *)
(* whatever is raised inside it, its own HTTPException included, into a 500.*)
(* A commission rate is a percentage here; the e-mail of a profile is the   *)
(* user's name.                                                             *)

NoAgreement ==
    [ initiator_id |-> NONE, amount |-> 0, commission_rate |-> 0,
      status |-> NONE ]

NoParty ==
    [ agreement_id |-> 0, user_id |-> NONE, email |-> NONE, role |-> NONE,
      share_amount |-> 0, has_accepted |-> FALSE,
      has_confirmed_completion |-> FALSE ]

RECURSIVE total_shares(_, _)
\* sum(p.share_amount for p in data.parties if p.role == "RECIPIENT")
total_shares(parties, n) ==
    IF n = 0 THEN 0
    ELSE total_shares(parties, n - 1)
            + (IF parties[n].role = "RECIPIENT" THEN parties[n].share_amount
               ELSE 0)

\* the two validations of the request, as the handler applies them
shares_valid(data_amount, parties, initiator_email) ==
    /\ total_shares(parties, Len(parties)) = data_amount
    /\ \A n \in 1..Len(parties) :
            ~(parties[n].role = "RECIPIENT"
                /\ parties[n].email = initiator_email)

\* the rows of table escrow_agreement_parties selected by a predicate
party_rows(D, agreement_id) ==
    { n \in 1..Len(D.escrow_agreement_parties) :
            D.escrow_agreement_parties[n].agreement_id = agreement_id }

\* a handler that accepts every request and finds a commission rate
\* configured (a variant for comparison)
create_without_validation(l, D) ==
    LET agreement_id == Len(D.escrow_agreements) + 1 IN
    CASE l.pc \in {"get_commission_rate", "select_initiator"} ->
            Goto(l, D, "insert_agreement")
      [] l.pc = "insert_agreement" ->
            Goto([l EXCEPT !.loc.agreement_id = agreement_id,
                           !.eff.writes = @ + 1],
                 [D EXCEPT !.escrow_agreements = Append(@,
                    [NoAgreement EXCEPT !.initiator_id = l.arg.uid,
                        !.amount = l.arg.amount, !.status = "DRAFT"])],
                 "insert_parties")
      [] OTHER ->
            Return([l EXCEPT !.eff.writes = @ + 1],
                   [D EXCEPT !.escrow_agreement_parties = @ \o
                        [ n \in 1..Len(l.arg.parties) |->
                            [NoParty EXCEPT
                                !.agreement_id = l.loc.agreement_id,
                                !.email = l.arg.parties[n].email,
                                !.role = l.arg.parties[n].role,
                                !.share_amount =
                                    l.arg.parties[n].share_amount] ]],
                   "success")

create_escrow_agreement(l, D) ==
    LET commission_rate == get_commission_rate("ESCROW_AGREEMENT")
        agreement_id == Len(D.escrow_agreements) + 1
    IN
    CASE l.pc = "get_commission_rate" ->
            IF ~commission_rate.ok THEN Return(l, D, "HTTP_500")
            ELSE Goto(l, D, "select_initiator")
      [] l.pc = "select_initiator" ->
            IF ~shares_valid(l.arg.amount, l.arg.parties, l.arg.uid)
            THEN Return(l, D, "HTTP_500")
            ELSE Goto(l, D, "insert_agreement")
      [] l.pc = "insert_agreement" ->
            Goto([l EXCEPT !.loc.agreement_id = agreement_id,
                           !.eff.writes = @ + 1],
                 [D EXCEPT !.escrow_agreements = Append(@,
                    [NoAgreement EXCEPT !.initiator_id = l.arg.uid,
                        !.amount = l.arg.amount,
                        !.commission_rate = commission_rate.rate,
                        !.status = "DRAFT"])],
                 "insert_parties")
      [] OTHER ->
            Return([l EXCEPT !.eff.writes = @ + 1],
                   [D EXCEPT !.escrow_agreement_parties = @ \o
                        [ n \in 1..Len(l.arg.parties) |->
                            [NoParty EXCEPT
                                !.agreement_id = l.loc.agreement_id,
                                !.email = l.arg.parties[n].email,
                                !.role = l.arg.parties[n].role,
                                !.share_amount =
                                    l.arg.parties[n].share_amount] ]],
                   "success")

\* await <query>.execute().data, the way escrow_service.py writes its
\* selects: .data is read from the coroutine that execute() returns, not
\* from the response, so the statement raises AttributeError before the
\* query is sent; each handler wraps the exception into a 500
execute_data(l, D) == Return(l, D, "HTTP_500")

\* the initiator funds an agreement.  Its select is such a statement; and
\* the row is selected with the columns amount, status and initiator_id
\* only, so past the three checks the handler would parse
\* agreement.get("expires_at", "") as a date, which raises on the empty
\* text.  Every exception is wrapped into a 500: no call reaches the wallet
fund_escrow_agreement(l, D) ==
    LET known == l.arg.aid \in 1..Len(D.escrow_agreements)
        agreement == IF known THEN D.escrow_agreements[l.arg.aid]
                     ELSE NoAgreement
    IN
    IF ~known THEN Return(l, D, "HTTP_500")
    ELSE IF agreement.initiator_id # l.arg.uid THEN Return(l, D, "HTTP_500")
    ELSE IF agreement.status # "READY_FOR_FUNDING"
    THEN Return(l, D, "HTTP_500")
    ELSE Return(l, D, "HTTP_500")

\* .eq("agreement_id", ...).eq("user_id", ...).single(): the party row of
\* the user in the agreement, 0 when there is not exactly one
party_of(D, agreement_id, user_id) ==
    LET rows == { n \in party_rows(D, agreement_id) :
                    D.escrow_agreement_parties[n].user_id = user_id } IN
    IF Cardinality(rows) = 1 THEN CHOOSE n \in rows : TRUE ELSE 0

\* .eq("invite_code", invite_code).single(): the invite code of a party is
\* the number of its row here; 0 when no row has the code
party_by_invite(D, invite_code) ==
    IF invite_code \in 1..Len(D.escrow_agreement_parties) THEN invite_code
    ELSE 0

\* the rows .eq("agreement_id", ...).eq("has_accepted", False) selects
pending_acceptances(D, agreement_id) ==
    { n \in party_rows(D, agreement_id) :
            ~D.escrow_agreement_parties[n].has_accepted }

\* the handler with its first select awaited before .data is read (a
\* variant for comparison): the agreement's status is never read
accept_with_awaited_select(l, D) ==
    LET n == party_by_invite(D, l.arg.invite_code)
        party == IF n = 0 THEN NoParty ELSE D.escrow_agreement_parties[n]
    IN
    CASE l.pc = "select_party" ->
            IF n = 0 \/ party.agreement_id # l.arg.aid
            THEN Return(l, D, "HTTP_500")
            ELSE IF party.user_id # NONE /\ party.user_id # l.arg.uid
            THEN Return(l, D, "HTTP_500")
            ELSE IF party.user_id = NONE THEN Goto(l, D, "associate")
            ELSE Goto(l, D, "accept")
      [] l.pc = "associate" ->
            Goto(Wrote(l),
                 [D EXCEPT !.escrow_agreement_parties[n].user_id = l.arg.uid],
                 "accept")
      [] l.pc = "accept" ->
            Goto(Wrote(l),
                 [D EXCEPT !.escrow_agreement_parties[n].has_accepted = TRUE],
                 "select_pending")
      [] l.pc = "select_pending" ->
            IF pending_acceptances(D, l.arg.aid) = {}
            THEN Goto(l, D, "update_agreement")
            ELSE Return(l, D, "success")
      [] OTHER ->
            Return(Wrote(l),
                   [D EXCEPT !.escrow_agreements[l.arg.aid].status =
                        "READY_FOR_FUNDING"],
                   "success")

\* an invited party accepts: the first statement is the select of the
\* party row by its invite code, which raises; the statements after it are
\* translated as written
accept_escrow_agreement(l, D) ==
    LET n == party_by_invite(D, l.arg.invite_code) IN
    CASE l.pc = "select_party" -> execute_data(l, D)
      [] l.pc = "associate" ->
            Goto(Wrote(l),
                 [D EXCEPT !.escrow_agreement_parties[n].user_id = l.arg.uid],
                 "accept")
      [] l.pc = "accept" ->
            Goto(Wrote(l),
                 [D EXCEPT !.escrow_agreement_parties[n].has_accepted = TRUE],
                 "select_pending")
      [] l.pc = "select_pending" ->
            IF pending_acceptances(D, l.arg.aid) = {}
            THEN Goto(l, D, "update_agreement")
            ELSE Return(l, D, "success")
      [] OTHER ->
            Return(Wrote(l),
                   [D EXCEPT !.escrow_agreements[l.arg.aid].status =
                        "READY_FOR_FUNDING"],
                   "success")

\* an invited party rejects: the select of the party row raises, and so
\* would the select of the agreement; the statements after them are
\* translated as written.  A reject of a FUNDED agreement calls
\* create_dispute with the order type ESCROW_AGREEMENT, for which get_order
\* raises ValueError
reject_escrow_agreement(l, D) ==
    LET n == party_by_invite(D, l.arg.invite_code)
        agreement == D.escrow_agreements[l.arg.aid]
    IN
    CASE l.pc = "select_party" -> execute_data(l, D)
      [] l.pc = "select_agreement" -> execute_data(l, D)
      [] l.pc = "mark_rejection" ->
            Goto(Wrote(l),
                 [D EXCEPT !.escrow_agreement_parties[n].has_accepted = FALSE],
                 IF agreement.status \in {"DRAFT", "PENDING_ACCEPTANCE"}
                 THEN "cancel_agreement" ELSE "create_dispute")
      [] l.pc = "cancel_agreement" ->
            Return(Wrote(l),
                   [D EXCEPT !.escrow_agreements[l.arg.aid].status =
                        "CANCELLED"],
                   "success")
      [] OTHER ->
            IF get_order(D, l.arg.aid, "ESCROW_AGREEMENT").err # NONE
            THEN Return(l, D, "HTTP_500")
            ELSE Return(l, D, "success")

\* a party proposes completion of an agreement IN_PROGRESS: the first
\* statement is the select of the party row, which raises; the statements
\* after it are translated as written
propose_escrow_completion(l, D) ==
    LET known == l.arg.aid \in 1..Len(D.escrow_agreements) IN
    CASE l.pc = "select_party" -> execute_data(l, D)
      [] l.pc = "select_agreement" ->
            IF ~known THEN Return(l, D, "HTTP_500")
            ELSE IF D.escrow_agreements[l.arg.aid].status # "IN_PROGRESS"
            THEN Return(l, D, "HTTP_500")
            ELSE Goto(l, D, "insert_proposal")
      [] OTHER ->
            Return([l EXCEPT !.eff.writes = @ + 1],
                   [D EXCEPT !.escrow_completion_proposals = Append(@,
                        [ agreement_id |-> l.arg.aid,
                          proposer_id |-> l.arg.uid ])],
                   "success")

\* .eq("role", "RECIPIENT"): the recipients of an agreement, in row order
recipients(D, agreement_id) ==
    SelectSeq(D.escrow_agreement_parties,
              LAMBDA r : r.agreement_id = agreement_id
                            /\ r.role = "RECIPIENT")

\* the rows .eq("has_confirmed_completion", False) selects
pending_votes(D, agreement_id) ==
    { n \in party_rows(D, agreement_id) :
            ~D.escrow_agreement_parties[n].has_confirmed_completion }

\* if not pending.data
all_confirmed(D, agreement_id) == pending_votes(D, agreement_id) = {}

\* release_escrow_funds(agreement_id, ...): per recipient a debit of the
\* initiator's escrow and a credit of the recipient's balance, then the
\* commission record and the status COMPLETED; its first statement, the
\* select of the agreement, raises
release_escrow_funds(l, D) ==
    LET agreement_id == l.loc.agreement_id
        known == agreement_id \in 1..Len(D.escrow_agreements)
        agreement == IF known THEN D.escrow_agreements[agreement_id]
                     ELSE NoAgreement
        rs == recipients(D, agreement_id)
        commission_amount == Share(agreement.amount, agreement.commission_rate)
    IN
    CASE l.pc = "release_select_agreement" -> execute_data(l, D)
      [] l.pc = "release_select_recipients" ->
            IF Len(rs) = 0 THEN Goto(l, D, "insert_commission")
            ELSE Goto([l EXCEPT !.loc.i = 1], D, "release_debit")
      [] l.pc = "release_debit" ->
            rpc_update_wallet_balance(l, D, agreement.initiator_id,
                0 - rs[l.loc.i].share_amount, "escrow_balance",
                "release_credit", "except")
      [] l.pc = "release_credit" ->
            rpc_update_wallet_balance(
                [l EXCEPT !.loc.i = @ + 1], D, rs[l.loc.i].user_id,
                rs[l.loc.i].share_amount, "balance",
                IF l.loc.i < Len(rs) THEN "release_debit"
                ELSE "insert_commission",
                "except")
      [] l.pc = "insert_commission" ->
            Goto(l, [D EXCEPT !.platform_commissions = @ + commission_amount],
                 "update_agreement")
      [] l.pc = "update_agreement" ->
            Return(Wrote(l),
                   [D EXCEPT !.escrow_agreements[agreement_id].status =
                                "COMPLETED"],
                   "success")
      [] OTHER -> Return(l, D, "HTTP_500")

\* a party votes on a completion proposal; the vote that leaves no party
\* unconfirmed goes on to release the funds.  The first statement, the
\* select of the proposal, raises; the statements after it are translated
\* as written
vote_escrow_completion(l, D) ==
    LET agreement_id == l.loc.agreement_id
        mine == party_of(D, agreement_id, l.arg.uid)
    IN
    CASE l.pc = "select_proposal" -> execute_data(l, D)
      [] l.pc = "select_party" ->
            IF mine = 0 THEN Return(l, D, "HTTP_500")
            ELSE Goto(l, D, "record_vote")
      [] l.pc = "record_vote" ->
            Goto(Wrote(l),
                 [D EXCEPT !.escrow_agreement_parties =
                    [ n \in 1..Len(@) |->
                        IF n \in party_rows(D, agreement_id)
                            /\ @[n].user_id = l.arg.uid
                        THEN [@[n] EXCEPT !.has_confirmed_completion =
                                            l.arg.confirm]
                        ELSE @[n] ]],
                 "select_pending")
      [] l.pc = "select_pending" ->
            IF all_confirmed(D, agreement_id)
            THEN Goto(l, D, "release_select_agreement")
            ELSE Return(l, D, "success")
      [] OTHER -> release_escrow_funds(l, D)

----------------------------------------------------------------------------
(* Requests on escrow agreements                                           *)

EscrowCall(p, op, pc, arg) ==
    StartTracked(p, Call(op, pc, arg), MaxEscrowCalls)

create_escrow_agreement_request(p, uid, amount, parties) ==
    EscrowCall(p, "create_escrow_agreement", "get_commission_rate",
               [NoArg EXCEPT !.uid = uid, !.amount = amount,
                             !.parties = parties])

create_escrow_agreement_step(p) ==
    OrderStep(p, "create_escrow_agreement",
              create_escrow_agreement(procs[p], DB))

fund_escrow_agreement_request(p, aid, uid) ==
    EscrowCall(p, "fund_escrow_agreement", "select_agreement",
               [NoArg EXCEPT !.aid = aid, !.uid = uid,
                             !.snap = [NoSnap EXCEPT !.wallets = wallets,
                                        !.row = escrow_agreements[aid]]])

fund_escrow_agreement_step(p) ==
    OrderStep(p, "fund_escrow_agreement", fund_escrow_agreement(procs[p], DB))

propose_escrow_completion_request(p, aid, uid) ==
    EscrowCall(p, "propose_escrow_completion", "select_party",
               [NoArg EXCEPT !.aid = aid, !.uid = uid])

propose_escrow_completion_step(p) ==
    OrderStep(p, "propose_escrow_completion",
              propose_escrow_completion(procs[p], DB))

\* what an accept or a reject finds when it arrives
Found_by_invite(aid) ==
    [NoSnap EXCEPT !.wallets = wallets, !.row = escrow_agreements[aid],
        !.parties = escrow_agreement_parties]

accept_escrow_agreement_request(p, aid, invite_code, uid) ==
    EscrowCall(p, "accept_escrow_agreement", "select_party",
               [NoArg EXCEPT !.aid = aid, !.uid = uid,
                             !.invite_code = invite_code,
                             !.snap = Found_by_invite(aid)])

accept_escrow_agreement_step(p) ==
    OrderStep(p, "accept_escrow_agreement",
              accept_escrow_agreement(procs[p], DB))

reject_escrow_agreement_request(p, aid, invite_code, uid) ==
    EscrowCall(p, "reject_escrow_agreement", "select_party",
               [NoArg EXCEPT !.aid = aid, !.uid = uid,
                             !.invite_code = invite_code,
                             !.snap = Found_by_invite(aid)])

reject_escrow_agreement_step(p) ==
    OrderStep(p, "reject_escrow_agreement",
              reject_escrow_agreement(procs[p], DB))

\* what a vote finds when it arrives: the wallets, the recorded commission,
\* the agreement of the proposal and its party rows
Found_by_vote(proposal_id) ==
    LET aid == escrow_completion_proposals[proposal_id].agreement_id IN
    [NoSnap EXCEPT !.wallets = wallets,
        !.platform_commissions = platform_commissions,
        !.row = escrow_agreements[aid],
        !.parties = SelectSeq(escrow_agreement_parties,
                              LAMBDA r : r.agreement_id = aid)]

vote_escrow_completion_request(p, proposal_id, uid, confirm) ==
    /\ proposal_id \in 1..Len(escrow_completion_proposals)
    /\ EscrowCall(p, "vote_escrow_completion", "select_proposal",
                  [NoArg EXCEPT !.proposal_id = proposal_id, !.uid = uid,
                                !.confirm = confirm,
                                !.snap = Found_by_vote(proposal_id)])

vote_escrow_completion_step(p) ==
    OrderStep(p, "vote_escrow_completion",
              vote_escrow_completion(procs[p], DB))

----------------------------------------------------------------------------
(* An escrow agreement as a system.  No request of this code base gets an   *)
(* agreement past creation (see create_escrow_agreement and                 *)
(* fund_escrow_agreement), so the system starts from an agreement that all  *)
(* parties have accepted: waiting for its funding, or funded and IN_PROGRESS*)
(* with amount + commission held in the initiator's escrow, a completion   *)
(* proposal and none or all but one of the confirmations.  Three parties:  *)
(* the initiator and two recipients with the shares 6000 and 4000.          *)

SeedStatuses ==
    { "DRAFT", "PENDING_ACCEPTANCE", "READY_FOR_FUNDING", "FUNDED",
      "IN_PROGRESS", "CANCELLED" }

\* the statuses in which the funding is held in the initiator's escrow
FundedStatuses == {"FUNDED", "IN_PROGRESS"}

\* the party rows of a stored agreement: before READY_FOR_FUNDING the
\* recipients have not accepted yet
SeedAccepted(status, parties) ==
    [ n \in 1..Len(parties) |->
        [parties[n] EXCEPT !.has_accepted =
            \/ parties[n].role = "INITIATOR"
            \/ status \notin {"DRAFT", "PENDING_ACCEPTANCE"}] ]

\* commission rates a stored agreement carries, in percent
SeedRates == {0, 10}

SeedAgreement(status, rate) ==
    [NoAgreement EXCEPT !.initiator_id = "cust", !.amount = 10000,
        !.commission_rate = rate, !.status = status]

SeedParty(user_id, role, share_amount, confirmed) ==
    [NoParty EXCEPT !.agreement_id = 1, !.user_id = user_id,
        !.email = user_id, !.role = role, !.share_amount = share_amount,
        !.has_accepted = TRUE,
        !.has_confirmed_completion = user_id \in confirmed]

\* the parties whose confirmation a stored agreement IN_PROGRESS carries:
\* none, or all but the last recipient
SeedConfirmed == { {}, {"cust", "vend"} }

SeedParties(confirmed) ==
    << SeedParty("cust", "INITIATOR", 0, confirmed),
       SeedParty("vend", "RECIPIENT", 6000, confirmed),
       SeedParty("disp", "RECIPIENT", 4000, confirmed) >>

\* the completion proposal of a stored agreement IN_PROGRESS
SeedProposal == [ agreement_id |-> 1, proposer_id |-> "cust" ]

\* amount + commission_amount: what funding moves into escrow
Funding(a) == a.amount + Share(a.amount, a.commission_rate)

Requested(email, share_amount) ==
    [ email |-> email, role |-> "RECIPIENT", share_amount |-> share_amount ]

\* the parties of a creation request: shares that sum to the amount, shares
\* that fall short of it, and the initiator among the recipients
PartyLists ==
    { << Requested("vend", 6000), Requested("disp", 4000) >>,
      << Requested("vend", 6000), Requested("disp", 3000) >>,
      << Requested("cust", 6000), Requested("disp", 4000) >> }

Voters == Users \cup {"admin"}

InitEscrow ==
    /\ \E status \in SeedStatuses, rate \in SeedRates :
        LET a == SeedAgreement(status, rate) IN
        /\ escrow_agreements = << a >>
        /\ wallets = [ u \in Users |->
            [ balance |-> IF u = "cust" /\ status \notin FundedStatuses
                          THEN Funding(a) ELSE 0,
              escrow_balance |-> IF u = "cust" /\ status \in FundedStatuses
                                 THEN Funding(a) ELSE 0 ] ]
        /\ \E confirmed \in SeedConfirmed :
            /\ status # "IN_PROGRESS" => confirmed = {}
            /\ escrow_agreement_parties =
                    SeedAccepted(status, SeedParties(confirmed))
        /\ escrow_completion_proposals =
                IF status = "IN_PROGRESS" THEN << SeedProposal >> ELSE NoRows
    /\ transactions = NoRows
    /\ orders = NoRows
    /\ pending = [ k \in {} |-> NoIntent ]
    /\ rq_jobs = NoRows
    /\ platform_commissions = 0
    /\ disputes = NoRows
    /\ withdrawals = NoRows
    /\ materialized = [ r \in Refs |-> Unused ]
    /\ procs = [ p \in Procs |-> Idle ]
    /\ returned = Idle
    /\ calls = 0

NextEscrow ==
    \/ \E p \in Procs, uid \in {"cust"}, parties \in PartyLists :
            create_escrow_agreement_request(p, uid, 10000, parties)
    \/ \E p \in Procs, aid \in 1..Len(escrow_agreements), uid \in Voters :
            \/ fund_escrow_agreement_request(p, aid, uid)
            \/ propose_escrow_completion_request(p, aid, uid)
    \/ \E p \in Procs, aid \in 1..Len(escrow_agreements), uid \in Voters,
          invite_code \in 1..Len(escrow_agreement_parties) :
            \/ accept_escrow_agreement_request(p, aid, invite_code, uid)
            \/ reject_escrow_agreement_request(p, aid, invite_code, uid)
    \/ \E p \in Procs, proposal_id \in 1..Len(escrow_completion_proposals),
          uid \in Voters, confirm \in BOOLEAN :
            vote_escrow_completion_request(p, proposal_id, uid, confirm)
    \/ \E p \in Procs :
            \/ accept_escrow_agreement_step(p)
            \/ reject_escrow_agreement_step(p)
            \/ create_escrow_agreement_step(p)
            \/ fund_escrow_agreement_step(p)
            \/ propose_escrow_completion_step(p)
            \/ vote_escrow_completion_step(p)

SpecEscrow == InitEscrow /\ [][NextEscrow]_vars

----------------------------------------------------------------------------
(* Properties of escrow agreements and of the ledger                       *)

\* every party of the agreement has its confirmation recorded
Unanimous(aid) ==
    \A n \in 1..Len(escrow_agreement_parties) :
        escrow_agreement_parties[n].agreement_id = aid
            => escrow_agreement_parties[n].has_confirmed_completion

\* the agreement a proposal is about
AgreementOf(proposal_id) ==
    escrow_completion_proposals[proposal_id].agreement_id

\* the call that ended last was a confirming vote of the one party of a
\* funded agreement IN_PROGRESS whose confirmation was still missing
LastVoteEnds ==
    LET before == returned.arg.snap IN
    /\ Sequential
    /\ returned.op = "vote_escrow_completion"
    /\ returned.arg.confirm
    /\ before.row.status = "IN_PROGRESS"
    /\ before.wallets[before.row.initiator_id].escrow_balance
            >= before.row.amount
    /\ \E n \in 1..Len(before.parties) :
            before.parties[n].user_id = returned.arg.uid
    /\ \A n \in 1..Len(before.parties) :
            before.parties[n].has_confirmed_completion
                <=> before.parties[n].user_id # returned.arg.uid

\* the recipients among the party rows a vote found
RecipientsFound ==
    SelectSeq(returned.arg.snap.parties, LAMBDA r : r.role = "RECIPIENT")

\* C7: the confirming vote of the last unconfirmed party of a funded
\* agreement is recorded and performs the release: every party then has
\* its confirmation recorded, each recipient's balance is credited and the
\* agreement is COMPLETED.
C7_LastVoteReleases ==
    LastVoteEnds =>
        LET aid == AgreementOf(returned.arg.proposal_id)
            before == returned.arg.snap
        IN
        /\ Unanimous(aid)
        /\ escrow_agreements[aid].status = "COMPLETED"
        /\ \A n \in 1..Len(RecipientsFound) :
                wallets[RecipientsFound[n].user_id].balance
                    > before.wallets[RecipientsFound[n].user_id].balance

\* what the handlers do: every vote and every proposal ends in a 500 and
\* leaves the party rows, the proposals, the agreements and the wallets as
\* they were stored
VoteRaisesUnchanged ==
    /\ (returned.op \in {"vote_escrow_completion",
                          "propose_escrow_completion"})
            => returned.res = "HTTP_500" /\ returned.eff = NoEff
    /\ (Sequential /\ returned.op = "vote_escrow_completion")
            => /\ wallets = returned.arg.snap.wallets
               /\ escrow_agreements[AgreementOf(returned.arg.proposal_id)]
                    = returned.arg.snap.row
               /\ ~Unanimous(AgreementOf(returned.arg.proposal_id))

\* the last unconfirmed party cast its confirming vote
LastVoteSeen == LastVoteEnds /\ returned.arg.uid = "disp"

\* C20: the release that the last confirming vote performs debits the
\* initiator's escrow_balance once per recipient by that recipient's share
\* and credits the recipient's balance by it, records the commission and
\* sets the agreement to COMPLETED; the debits add up to the agreement
\* amount.
C20_ReleasePaysEachShare ==
    LastVoteEnds =>
        LET aid == AgreementOf(returned.arg.proposal_id)
            before == returned.arg.snap
            a == before.row
        IN
        /\ returned.eff.wallet = 2 * Len(RecipientsFound)
        /\ wallets[a.initiator_id].escrow_balance
                = before.wallets[a.initiator_id].escrow_balance - a.amount
        /\ \A n \in 1..Len(RecipientsFound) :
                wallets[RecipientsFound[n].user_id].balance
                    = before.wallets[RecipientsFound[n].user_id].balance
                        + RecipientsFound[n].share_amount
        /\ platform_commissions
                = before.platform_commissions
                    + Share(a.amount, a.commission_rate)
        /\ escrow_agreements[aid].status = "COMPLETED"

\* the request names recipient shares that do not sum to the amount, or
\* names the initiator as a recipient
BadShares(l) ==
    \/ total_shares(l.arg.parties, Len(l.arg.parties)) # l.arg.amount
    \/ \E n \in 1..Len(l.arg.parties) :
            /\ l.arg.parties[n].role = "RECIPIENT"
            /\ l.arg.parties[n].email = l.arg.uid

\* C8: a create_escrow_agreement call whose recipient shares do not sum to
\* the amount, or that names the initiator as a recipient, inserts no row
\* at any point of its run and ends with an error.
C8_BadSharesCreateNothing ==
    /\ \A p \in Procs :
            (procs[p].op = "create_escrow_agreement" /\ BadShares(procs[p]))
                => procs[p].eff.writes = 0
    /\ (returned.op = "create_escrow_agreement" /\ BadShares(returned))
            => (IsError(returned.res) /\ returned.eff.writes = 0
                    /\ Len(escrow_agreements) = 1
                    /\ Len(escrow_agreement_parties) = Len(SeedParties({})))

C8_Witness ==
    /\ returned.op = "create_escrow_agreement"
    /\ BadShares(returned)
    /\ returned.res = "HTTP_500"

RECURSIVE HoldingsOf(_, _)
\* balance + escrow_balance over the wallets w of a set of users
HoldingsOf(w, users) ==
    IF users = {} THEN 0
    ELSE LET u == CHOOSE u \in users : TRUE IN
         w[u].balance + w[u].escrow_balance + HoldingsOf(w, users \ {u})

Holdings(users) == HoldingsOf(wallets, users)

\* C2: a request of the delivery lifecycle, none of which is a webhook
\* hold, a top-up, a withdrawal or an admin adjustment, leaves what the
\* wallets hold together with the recorded platform commission as the
\* request found it; so does every sequence of such requests.
C2_LedgerConserved ==
    Sequential =>
        Holdings(Users) + platform_commissions
            = HoldingsOf(returned.arg.snap.wallets, Users)
                + returned.arg.snap.platform_commissions

----------------------------------------------------------------------------
(* Spending from a wallet: app/services/wallet_service.py and               *)
(* app/services/admin_service.py                                            *)

\* PayWithWalletRequest: amount: Decimal
PayWithWalletRequest_amount == "Decimal"

\* the debit of a handler: rpc update_wallet_balance with p_delta the
\* negated amount of the request, a value of the amount's type.  The call
\* raises in the client when that type cannot be written as JSON, and
\* nothing reaches the datastore
rpc_debit_of_request(l, D, amount_type, next, except) ==
    IF json_serializable({"str", amount_type})
    THEN rpc_update_wallet_balance(l, D, l.arg.uid, 0 - l.arg.amount,
                                   "balance", next, except)
    ELSE Goto([l EXCEPT !.eff.raised = @ + 1], D, except)

\* pay_with_wallet: the balance is read and compared, then the debit is
\* called with the Decimal amount of the request, which raises; except
\* Exception turns that into a 500.  The transaction row further down is
\* built from data.details, an attribute the request model does not have.
pay_with_wallet(l, D) ==
    CASE l.pc = "select_wallet" ->
            IF D.wallets[l.arg.uid].balance < l.arg.amount
            THEN Return(l, D, "HTTP_400")
            ELSE Goto(l, D, "debit")
      [] l.pc = "debit" ->
            LET r == rpc_debit_of_request(l, D, PayWithWalletRequest_amount,
                                          "select_wallet_after", "except")
            IN IF r.l.pc = "except" THEN Return(r.l, r.D, "HTTP_500") ELSE r
      [] OTHER -> Return(l, D, "HTTP_500")

\* min_amount = Decimal("1000")
min_amount == 1000

NoWithdrawal == [ user_id |-> NONE, amount |-> 0, status |-> NONE ]

\* data.amount of a withdrawal request: WithdrawalCreate is imported from
\* the schemas, which do not define it, so the handler is given an amount
\* of any of the types a request model declares for money
AmountTypes == {"Decimal", "float", "int"}

\* net_amount = data.amount - fee, fee being a Decimal: evaluated for a
\* Decimal and for an int, TypeError for a float
minus_decimal(amount_type) == amount_type \in {"Decimal", "int"}

\* request_withdrawal: the balance is read and compared and the fee
\* subtracted, then the debit is called with the negated amount and the
\* withdrawal recorded.  Every exception, its own HTTPException included,
\* becomes a 500: a float amount raises at the subtraction, a Decimal amount
\* in the debit call, which cannot write it as JSON; after the debit and
\* the insert of an int amount log_audit_event is called without the
\* datastore client it requires, which raises after the two writes.
request_withdrawal(l, D) ==
    CASE l.pc = "select_wallet" ->
            IF l.arg.amount < min_amount THEN Return(l, D, "HTTP_500")
            ELSE IF D.wallets[l.arg.uid].balance < l.arg.amount
            THEN Return(l, D, "HTTP_500")
            ELSE IF ~minus_decimal(l.arg.amount_type)
            THEN Return(l, D, "HTTP_500")
            ELSE Goto(l, D, "debit")
      [] l.pc = "debit" ->
            LET r == rpc_debit_of_request(l, D, l.arg.amount_type,
                                          "insert_withdrawal", "except")
            IN IF r.l.pc = "except" THEN Return(r.l, r.D, "HTTP_500") ELSE r
      [] l.pc = "insert_withdrawal" ->
            Return([l EXCEPT !.eff.writes = @ + 1],
                   [D EXCEPT !.withdrawals = Append(@,
                        [NoWithdrawal EXCEPT !.user_id = l.arg.uid,
                            !.amount = l.arg.amount, !.status = "PENDING"])],
                   "HTTP_500")
      [] OTHER -> Return(l, D, "HTTP_500")

\* approve_withdrawal: the withdrawal is read; a missing row (.single()
\* raises) and a status other than PENDING end in the handler's 500, which
\* wraps its own HTTPExceptions.  The row is updated to PROCESSING, and the
\* call of log_audit_event that follows lacks the datastore client it
\* requires: TypeError, answered as a 500 with the row left PROCESSING.
approve_withdrawal(l, D) ==
    LET known == l.arg.withdrawal_id \in 1..Len(D.withdrawals)
        withdrawal == IF known THEN D.withdrawals[l.arg.withdrawal_id]
                      ELSE NoWithdrawal
    IN
    CASE l.pc = "select_withdrawal" ->
            IF ~known THEN Return(l, D, "HTTP_500")
            ELSE IF withdrawal.status # "PENDING" THEN Return(l, D, "HTTP_500")
            ELSE Goto(l, D, "update_withdrawal")
      [] OTHER ->
            Return(Wrote(l),
                   [D EXCEPT !.withdrawals[l.arg.withdrawal_id].status =
                                    "PROCESSING"],
                   "HTTP_500")

\* if new_balance < 0
insufficient_for_debit(new_balance) == new_balance < 0

\* adjust_wallet: the new balance is computed from the balance read; the
\* stored procedure applies the delta, and when the call raises, for
\* whatever reason, the handler writes the computed balance into the row
\* itself.  The transaction is recorded and audited, and the wallet and
\* the profile are read for the response
adjust_wallet(l, D) ==
    LET delta == IF l.arg.action = "credit" THEN l.arg.amount
                 ELSE 0 - l.arg.amount
        new_balance == D.wallets[l.arg.uid].balance + delta
        applied == update_wallet_balance(D, l.arg.uid, delta, "balance")
    IN
    CASE l.pc = "select_wallet" ->
            IF insufficient_for_debit(new_balance)
            THEN Return(l, D, "HTTP_400")
            ELSE Goto([l EXCEPT !.loc.amount = new_balance], D, "rpc")
      [] l.pc = "rpc" ->
            IF ~D.outage /\ applied.ok
            THEN Goto([l EXCEPT !.eff.wallet = @ + 1], applied.D, "insert_tx")
            ELSE Goto([l EXCEPT !.eff.raised = @ + 1], D, "fallback")
      [] l.pc = "fallback" ->
            Goto([l EXCEPT !.eff.wallet = @ + 1],
                 [D EXCEPT !.wallets[l.arg.uid].balance = l.loc.amount],
                 "insert_tx")
      [] l.pc = "insert_tx" ->
            Goto([l EXCEPT !.eff.txs = @ + 1],
                 [D EXCEPT !.transactions = Append(@,
                      [NoTx EXCEPT
                          !.tx_ref = << "ADMIN-ADJ-",
                                         Len(D.transactions) + 1 >>,
                          !.amount = l.arg.amount,
                          !.from_user_id = IF l.arg.action = "debit"
                                           THEN l.arg.uid ELSE NONE,
                          !.to_user_id = IF l.arg.action = "credit"
                                         THEN l.arg.uid ELSE NONE,
                          !.transaction_type = "ADMIN_ADJUSTMENT",
                          !.status = "COMPLETED"])],
                 "log_audit_event")
      [] l.pc = "log_audit_event" -> Goto(l, D, "select_updated_wallet")
      [] l.pc = "select_updated_wallet" -> Goto(l, D, "select_profile")
      [] OTHER -> Return(l, D, "success")

WalletCall(p, op, arg) ==
    StartWithin(p, Call(op, "select_wallet", arg), MaxWalletCalls)

pay_with_wallet_request(p, uid, amount) ==
    WalletCall(p, "pay_with_wallet",
               [NoArg EXCEPT !.uid = uid, !.amount = amount])

pay_with_wallet_step(p) ==
    OrderStep(p, "pay_with_wallet", pay_with_wallet(procs[p], DB))

request_withdrawal_request(p, uid, amount, amount_type) ==
    WalletCall(p, "request_withdrawal",
               [NoArg EXCEPT !.uid = uid, !.amount = amount,
                             !.amount_type = amount_type])

request_withdrawal_step(p) ==
    OrderStep(p, "request_withdrawal", request_withdrawal(procs[p], DB))

\* an admin approves the withdrawal with this id, stored or not
approve_withdrawal_request(p, withdrawal_id, admin_id) ==
    /\ withdrawal_id \in 1..(Len(withdrawals) + 1)
    /\ StartWithin(p, Call("approve_withdrawal", "select_withdrawal",
                           [NoArg EXCEPT !.withdrawal_id = withdrawal_id,
                                         !.uid = admin_id]),
                   MaxWalletCalls)

approve_withdrawal_step(p) ==
    OrderStep(p, "approve_withdrawal", approve_withdrawal(procs[p], DB))

adjust_wallet_request(p, uid, adjustment_type, amount) ==
    WalletCall(p, "adjust_wallet",
               [NoArg EXCEPT !.uid = uid, !.amount = amount,
                             !.action = adjustment_type])

adjust_wallet_step(p) ==
    OrderStep(p, "adjust_wallet", adjust_wallet(procs[p], DB))

\* the call of the stored procedure raises: rpc(...).execute() does not
\* reach the datastore
adjust_wallet_rpc_raises(p) ==
    /\ procs[p].pc = "rpc"
    /\ OrderStep(p, "adjust_wallet", adjust_wallet(procs[p], Outage))

\* requests of the other services on the same wallet, served concurrently
fund_request(p, aid, uid) ==
    StartWithin(p, Call("fund_escrow_agreement", "select_agreement",
                        [NoArg EXCEPT !.aid = aid, !.uid = uid]),
                MaxWalletCalls)

refund_request(p, oid, uid) ==
    /\ oid \in OrderRows("food_orders")
    /\ StartWithin(p, Call("vendor_food_order_action", "select_order",
                    [NoArg EXCEPT !.oid = oid, !.uid = uid,
                                  !.action = "reject"]),
                   MaxWalletCalls)

release_request(p, oid, uid) ==
    /\ oid \in OrderRows("food_orders")
    /\ StartWithin(p, Call("customer_confirm_food_order", "select_order",
                    [NoArg EXCEPT !.oid = oid, !.uid = uid]),
                   MaxWalletCalls)

----------------------------------------------------------------------------
(* One wallet under concurrent requests.  The customer has 2000 to spend,   *)
(* and 4000 held for two paid food orders: one PENDING, which the vendor    *)
(* can reject (refund), and one READY, which the customer can confirm       *)
(* (release); an agreement waits for the customer's funding.                *)

InitWallet ==
    /\ wallets = [ u \in Users |->
            [ balance |-> IF u = "cust" THEN 2000 ELSE 0,
              escrow_balance |-> IF u = "cust" THEN 4000 ELSE 0 ] ]
    /\ orders = << SeedOrder("food_orders", 2000),
                   [SeedOrder("food_orders", 2000) EXCEPT
                        !.order_status = "READY"] >>
    /\ transactions = [ i \in 1..2 |-> SeedTx(i, "food_orders", 2000) ]
    /\ escrow_agreements = << SeedAgreement("READY_FOR_FUNDING", 10) >>
    /\ escrow_agreement_parties = SeedParties({})
    /\ escrow_completion_proposals = NoRows
    /\ pending = [ k \in {} |-> NoIntent ]
    /\ rq_jobs = NoRows
    /\ platform_commissions = 0
    /\ disputes = NoRows
    /\ withdrawals = NoRows
    /\ materialized = [ r \in Refs |-> Unused ]
    /\ procs = [ p \in Procs |-> Idle ]
    /\ returned = Idle
    /\ calls = 0

NextWallet ==
    \/ \E p \in Procs : pay_with_wallet_request(p, "cust", 2000)
    \/ \E p \in Procs, t \in AmountTypes :
            request_withdrawal_request(p, "cust", 2000, t)
    \/ \E p \in Procs, id \in 1..MaxWithdrawals :
            approve_withdrawal_request(p, id, "admin")
    \/ \E p \in Procs, t \in {"credit", "debit"} :
            adjust_wallet_request(p, "cust", t, 2000)
    \/ \E p \in Procs : fund_request(p, 1, "cust")
    \/ \E p \in Procs, oid \in 1..Len(orders) : refund_request(p, oid, "vend")
    \/ \E p \in Procs, oid \in 1..Len(orders) : release_request(p, oid, "cust")
    \/ \E p \in Procs :
            \/ pay_with_wallet_step(p)
            \/ request_withdrawal_step(p)
            \/ approve_withdrawal_step(p)
            \/ adjust_wallet_step(p)
            \/ adjust_wallet_rpc_raises(p)
            \/ fund_escrow_agreement_step(p)
            \/ vendor_food_order_action_step(p)
            \/ customer_confirm_food_order_step(p)

SpecWallet == InitWallet /\ [][NextWallet]_vars

\* C10: in every state, whatever the interleaving of the requests on it, a
\* wallet has neither a negative balance nor a negative escrow balance.
C10_WalletNeverNegative ==
    \A u \in Users :
        wallets[u].balance >= 0 /\ wallets[u].escrow_balance >= 0

\* two requests that both read a sufficient balance have run into each
\* other: the withdrawal passed its own checks, the other debit emptied the
\* balance, and the stored procedure refused the debit of the withdrawal
C10_Witness ==
    /\ returned.op = "request_withdrawal"
    /\ returned.arg.amount_type = "int"
    /\ returned.res = "HTTP_500"
    /\ returned.eff.raised = 1
    /\ returned.eff.wallet = 0
    /\ wallets["cust"].balance = 0

----------------------------------------------------------------------------
(* Properties of the webhook entry point                                   *)

Tables ==
    << wallets, transactions, orders, pending, rq_jobs,
       platform_commissions, disputes, escrow_agreements,
       escrow_agreement_parties, escrow_completion_proposals, withdrawals,
       materialized >>

\* the step is the end of a webhook call whose verif-hash header does not
\* equal the secret hash: the header is absent, or present and different
MismatchCallEnds ==
    /\ returned' # returned
    /\ returned'.op = "flutterwave_webhook"
    /\ returned'.arg.pre \in {"signature_absent", "signature_mismatch",
                              "signature_non_ascii"}

\* C11: a webhook call whose verif-hash header does not equal the
\* configured secret hash fails with 401; it ends within the request step,
\* before any awaited datastore call (no read of transactions), and that
\* step changes no table, no cache key and no queue entry.
C11_BadSignatureRejected ==
    [][ MismatchCallEnds =>
            /\ returned'.res = "HTTP_401"
            /\ procs' = procs
            /\ UNCHANGED Tables ]_vars

\* the same of a header of ASCII characters that is present and differs
\* from the secret hash
PresentMismatchRejected ==
    [][ ( MismatchCallEnds /\ returned'.arg.pre = "signature_mismatch" ) =>
            /\ returned'.res = "HTTP_401"
            /\ procs' = procs
            /\ UNCHANGED Tables ]_vars

\* a call without the header raises TypeError within the request step and
\* changes nothing
AbsentHeaderRaises ==
    [][ ( MismatchCallEnds /\ returned'.arg.pre = "signature_absent" ) =>
            /\ returned'.res = "TypeError"
            /\ procs' = procs
            /\ UNCHANGED Tables ]_vars

\* a call whose header holds a character that is not ASCII raises
\* TypeError within the request step and changes nothing
NonAsciiHeaderRaises ==
    [][ ( MismatchCallEnds /\ returned'.arg.pre = "signature_non_ascii" ) =>
            /\ returned'.res = "TypeError"
            /\ procs' = procs
            /\ UNCHANGED Tables ]_vars

\* a webhook with such a header has raised while a quote was staged
NonAsciiHeaderSeen ==
    /\ returned.op = "flutterwave_webhook"
    /\ returned.arg.pre = "signature_non_ascii"
    /\ returned.res = "TypeError"
    /\ DOMAIN pending # {}
    /\ rq_jobs = NoRows

\* a forged webhook was turned away while a quote was staged
ForgedHeaderSeen ==
    /\ returned.op = "flutterwave_webhook"
    /\ returned.arg.pre = "signature_mismatch"
    /\ returned.res = "HTTP_401"
    /\ DOMAIN pending # {}
    /\ rq_jobs = NoRows

\* a webhook without the header has raised while a quote was staged
AbsentHeaderSeen ==
    /\ returned.op = "flutterwave_webhook"
    /\ returned.arg.pre = "signature_absent"
    /\ returned.res = "TypeError"
    /\ DOMAIN pending # {}
    /\ rq_jobs = NoRows

\* the jobs the acknowledged deliveries of a tx_ref have put on the queue
Acknowledged(tx_ref) ==
    Cardinality({ j \in 1..Len(rq_jobs) : rq_jobs[j].tx_ref = tx_ref })

\* the step is the end of a webhook call that found a transaction row with
\* its tx_ref
ExistingCallEnds ==
    /\ returned' # returned
    /\ returned'.op = "flutterwave_webhook"
    /\ select_tx_by_ref(DB, returned'.arg.ref) # {}

\* first sentence of C12: a webhook call that finds a transaction row with
\* its tx_ref answers "already_processed" and leaves the queue, the tables
\* and the cache as they were.
ExistingRowAcknowledged ==
    [][ ExistingCallEnds =>
            /\ returned'.res = "already_processed"
            /\ UNCHANGED Tables ]_vars

\* second sentence of C12: a tx_ref whose webhook was delivered and
\* acknowledged more than once never has a second order row, a second
\* escrow hold or a second transaction row.
SecondDeliveryMaterializesNothing ==
    \A r \in Refs :
        Acknowledged(r) >= 2 =>
            /\ materialized[r].orders <= 1
            /\ materialized[r].holds <= 1
            /\ TxCount(r) <= 1

\* C12: a webhook call that finds a transaction row with its tx_ref
\* answers "already_processed" and enqueues no job, and a tx_ref whose
\* webhook was acknowledged more than once never has a second order row,
\* escrow hold or transaction row.
C12_ReplayMaterializesNothing ==
    ExistingRowAcknowledged /\ []SecondDeliveryMaterializesNothing

\* the webhook of the earlier order was answered "already_processed", and
\* the two jobs of a tx_ref whose webhook was acknowledged twice have ended
C12_Witness ==
    /\ returned.op = "flutterwave_webhook"
    /\ returned.res = "already_processed"
    /\ returned.arg.ref = EarlierRef
    /\ \E r \in Refs :
            /\ Acknowledged(r) >= 2
            /\ \A j \in 1..Len(rq_jobs) :
                    rq_jobs[j].tx_ref = r => rq_jobs[j].status = "finished"

----------------------------------------------------------------------------
(* Composite ledger operations under a datastore whose calls can fail      *)

\* the steps of the handlers that are calls of rpc update_wallet_balance
WalletCallPcs ==
    { "debit_escrow", "credit_balance", "refund_debit", "refund_credit",
      "release_debit", "release_credit" }

\* the handlers that move funds with more than one wallet call
CompositeOps ==
    { "vendor_food_order_action", "vendor_laundry_order_action",
      "vendor_product_order_action", "resolve_dispute",
      "fund_escrow_agreement", "vote_escrow_completion" }

\* the step of a running composite handler, taken on the datastore D
composite_step(l, D) ==
    CASE l.op = "vendor_food_order_action" -> vendor_food_order_action(l, D)
      [] l.op = "vendor_laundry_order_action" ->
            vendor_laundry_order_action(l, D)
      [] l.op = "vendor_product_order_action" ->
            vendor_product_order_action(l, D)
      [] l.op = "resolve_dispute" -> resolve_dispute(l, D)
      [] l.op = "fund_escrow_agreement" -> fund_escrow_agreement(l, D)
      [] OTHER -> vote_escrow_completion(l, D)

\* a wallet call of a running handler raises: rpc(...).execute() does not
\* reach the datastore
wallet_call_fails(p) ==
    /\ procs[p].op \in CompositeOps
    /\ procs[p].pc \in WalletCallPcs
    /\ Step(p, composite_step(procs[p], Outage))

\* two paid orders of one customer, or an agreement IN_PROGRESS with its
\* funding held
InitLedger ==
    \/ InitOrders
    \/ InitEscrow /\ escrow_agreements[1].status = "IN_PROGRESS"

\* the requests that lead to a composite ledger operation
LedgerRequests ==
    \/ \E p \in Procs, oid \in 1..Len(orders), action \in {"accept", "reject"} :
            \/ vendor_food_order_action_request(p, oid, "vend", action)
            \/ vendor_laundry_order_action_request(p, oid, "vend", action)
            \/ vendor_product_order_action_request(p, oid, "vend", action)
    \/ \E p \in Procs, oid \in 1..Len(orders) :
            create_dispute_request(p, oid, "cust")
    \/ \E p \in Procs, did \in 1..Len(disputes), r \in Resolutions :
            resolve_dispute_request(p, did, r, "admin")
    \/ \E p \in Procs, aid \in 1..Len(escrow_agreements) :
            \/ fund_escrow_agreement_request(p, aid, "cust")
            \/ propose_escrow_completion_request(p, aid, "cust")
    \/ \E p \in Procs, proposal_id \in 1..Len(escrow_completion_proposals),
          uid \in Users :
            vote_escrow_completion_request(p, proposal_id, uid, TRUE)

NextLedger ==
    \/ calls < MaxLedgerCalls /\ LedgerRequests
    \/ \E p \in Procs :
            \/ vendor_food_order_action_step(p)
            \/ vendor_laundry_order_action_step(p)
            \/ vendor_product_order_action_step(p)
            \/ create_dispute_step(p)
            \/ resolve_dispute_step(p)
            \/ fund_escrow_agreement_step(p)
            \/ propose_escrow_completion_step(p)
            \/ vote_escrow_completion_step(p)
            \/ wallet_call_fails(p)

SpecLedger == InitLedger /\ [][NextLedger]_vars

\* C13: a composite ledger operation is all-or-nothing: a run in which a
\* wallet call raised has left no wallet call applied when it ends.
C13_CompositeAllOrNothing ==
    ( returned.op \in CompositeOps /\ returned.eff.raised > 0 )
        => returned.eff.wallet = 0

----------------------------------------------------------------------------
(* Orders and the ledger after materialization                             *)

\* no handler is in the middle of a run
Quiet == \A p \in Procs : procs[p] = Idle

\* the order is paid and its payment is held
Held(o) == o.payment_status = "PAID" /\ o.escrow_status = "HELD"

\* the user whose escrow holds the payment of the order
Payer(o) == IF o.sender_id # NONE THEN o.sender_id ELSE o.customer_id

\* the amounts of the first n orders that are held for user u
RECURSIVE HeldFor(_, _)
HeldFor(u, n) ==
    IF n = 0 THEN 0
    ELSE HeldFor(u, n - 1)
         + IF Held(orders[n]) /\ Payer(orders[n]) = u
           THEN orders[n].grand_total ELSE 0

\* C14: whenever no handler is in the middle of a run, also after a
\* materialization run has raised, every order row that is PAID and HELD
\* has exactly one transaction row, and the escrow_balance of its payer
\* holds the full amount of each such order exactly once.
C14_HeldOrderBacked ==
    Quiet =>
        \A i \in 1..Len(orders) :
            Held(orders[i]) =>
                /\ Cardinality(select_tx_by_order(DB, i)) = 1
                /\ wallets[Payer(orders[i])].escrow_balance
                        = HeldFor(Payer(orders[i]), Len(orders))

\* an attempt of a materialization job has raised and the job has ended,
\* no handler is running, and an order row is PAID and HELD
C14_Witness ==
    /\ Quiet
    /\ \E i \in 1..Len(orders) : Held(orders[i])
    /\ \E j \in 1..Len(rq_jobs) :
            /\ rq_jobs[j].retries_left < RetryMax
            /\ rq_jobs[j].status = "finished"

----------------------------------------------------------------------------
(* Refund and release of an order's payment, call by call                  *)

VendorActionOps ==
    { "vendor_food_order_action", "vendor_laundry_order_action",
      "vendor_product_order_action" }

\* the transaction row of an order that has exactly one
TxOf(oid) == transactions[CHOOSE i \in select_tx_by_order(DB, oid) : TRUE]

\* the call that ended last was a reject by the order's vendor that found
\* the order PENDING and PAID, with its amount held in the payer's escrow
RejectedPendingPaid ==
    /\ Sequential
    /\ returned.op \in VendorActionOps
    /\ returned.arg.action = "reject"
    /\ returned.arg.uid = returned.arg.snap.row.vendor_id
    /\ returned.arg.snap.row.order_status = "PENDING"
    /\ returned.arg.snap.row.payment_status = "PAID"
    /\ returned.arg.snap.wallets[TxOf(returned.arg.oid).from_user_id]
            .escrow_balance >= TxOf(returned.arg.oid).amount

\* C15: a reject by the vendor of a PENDING, PAID order whose amount is held
\* moves the transaction amount from the payer's escrow_balance to the
\* payer's balance, leaves every other wallet as it was, sets the
\* transaction to REFUNDED and the order to CANCELLED.
C15_RejectRefundsPayer ==
    RejectedPendingPaid =>
        LET tx == TxOf(returned.arg.oid)
            before == returned.arg.snap.wallets
        IN
        /\ wallets = [before EXCEPT
                ![tx.from_user_id].escrow_balance = @ - tx.amount,
                ![tx.from_user_id].balance = @ + tx.amount]
        /\ tx.status = "REFUNDED"
        /\ orders[returned.arg.oid].order_status = "CANCELLED"

\* a product order was rejected and refunded
C15_Witness ==
    /\ RejectedPendingPaid
    /\ returned.op = "vendor_product_order_action"
    /\ wallets["cust"].balance > 0
    /\ orders[returned.arg.oid].order_status = "CANCELLED"

\* the call that ended last was a confirm-receipt by the order's customer
\* that found the order READY and its transaction HELD, with the amount
\* held in the customer's escrow
ConfirmedReadyHeld ==
    /\ Sequential
    /\ returned.op \in ConfirmOps
    /\ returned.arg.uid = returned.arg.snap.row.customer_id
    /\ returned.arg.snap.row.order_status = "READY"
    /\ returned.arg.snap.tx_status = "HELD"
    /\ returned.arg.snap.wallets[returned.arg.uid].escrow_balance
            >= TxOf(returned.arg.oid).amount

\* C16: a confirm-receipt by the customer of a READY food, laundry or
\* product order whose transaction is HELD takes the full amount out of
\* the customer's escrow_balance, adds the vendor's share of it to the
\* vendor's balance, records the remainder as platform commission, sets
\* the transaction to RELEASED and the order to COMPLETED.
C16_ConfirmReleasesSplit ==
    ConfirmedReadyHeld =>
        LET tx == TxOf(returned.arg.oid)
            before == returned.arg.snap
            share == Share(tx.amount, VendorSharePct)
        IN
        /\ wallets = [before.wallets EXCEPT
                ![returned.arg.uid].escrow_balance = @ - tx.amount,
                ![before.row.vendor_id].balance = @ + share]
        /\ platform_commissions
                = before.platform_commissions + (tx.amount - share)
        /\ tx.status = "RELEASED"
        /\ orders[returned.arg.oid].order_status = "COMPLETED"

\* the split release as the food and laundry handlers perform it
FoodLaundryConfirmReleasesSplit ==
    (returned.op # "customer_confirm_product_order")
        => C16_ConfirmReleasesSplit

\* a food order was confirmed and its payment released
FoodConfirmSeen ==
    /\ ConfirmedReadyHeld
    /\ returned.op = "customer_confirm_food_order"
    /\ returned.res = "success"

----------------------------------------------------------------------------
(* The delivery lifecycle: app/services/delivery_service.py                *)

\* the riders a sender can choose, their dispatch company, and a rider the
\* datastore reports as not available
Riders == {"rider", "rider_off"}

dispatch_of(rider_id) == "disp"

\* profiles.user_type of the caller
user_type(uid) == IF uid \in Riders THEN "RIDER" ELSE "CUSTOMER"

\* how the stored procedure refuses a rider: it raises one of the rider
\* messages, or it answers with success false.  The handler has a branch
\* for each, and a call finds either
Refusals == {"raises", "answers"}

refusing(D, way) == [D EXCEPT !.refusal = way]

\* stored procedure assign_rider_to_paid_delivery(p_order_id,
\* p_chosen_rider_id): the rider and the rider's dispatch are written on the
\* order and its status becomes ASSIGNED; an unavailable rider is refused,
\* and nothing is written
assign_rider_to_paid_delivery(D, p_order_id, p_chosen_rider_id) ==
    IF p_chosen_rider_id = "rider_off"
    THEN [ raised |-> D.refusal = "raises", success |-> FALSE, D |-> D ]
    ELSE [ raised |-> FALSE, success |-> TRUE,
           D |-> [D EXCEPT !.orders[p_order_id].rider_id = p_chosen_rider_id,
                    !.orders[p_order_id].dispatch_id =
                        dispatch_of(p_chosen_rider_id),
                    !.orders[p_order_id].status = "ASSIGNED"] ]

\* stored procedure credit_dispatch_escrow_on_pickup(p_dispatch_id,
\* p_full_amount): the escrow_balance of the dispatch grows by the full fee
credit_dispatch_escrow_on_pickup(D, p_dispatch_id, p_full_amount) ==
    IF p_dispatch_id \in DOMAIN D.wallets
    THEN update_wallet_balance(D, p_dispatch_id, p_full_amount,
                               "escrow_balance")
    ELSE [ ok |-> FALSE, D |-> D ]

\* stored procedure release_from_dispatch_escrow(p_dispatch_id,
\* p_full_amount, p_dispatch_amount): the full fee leaves the escrow_balance
\* of the dispatch, the dispatch amount enters its balance and the
\* remainder is the platform's
release_from_dispatch_escrow(D, p_dispatch_id, p_full_amount, p_dispatch_amount) ==
    IF p_dispatch_id \notin DOMAIN D.wallets THEN [ ok |-> FALSE, D |-> D ]
    ELSE
    LET out == update_wallet_balance(D, p_dispatch_id, 0 - p_full_amount,
                                     "escrow_balance")
        in_ == update_wallet_balance(out.D, p_dispatch_id, p_dispatch_amount,
                                     "balance")
    IN
    IF out.ok /\ in_.ok
    THEN [ ok |-> TRUE,
           D |-> [in_.D EXCEPT !.platform_commissions =
                        @ + (p_full_amount - p_dispatch_amount)] ]
    ELSE [ ok |-> FALSE, D |-> D ]

\* the sender chooses a rider for a paid order; every exception, the
\* handler's own HTTPExceptions included, surfaces as a 500 unless its text
\* is one of the rider messages of the stored procedure.  The rider is
\* notified once assigned; an answer with success false is returned as it
\* is, AssignRiderResponse(success=False), without a notification
assign_rider_to_order(l, D) ==
    LET order == single_order(D, "delivery_orders", l.arg.oid)
        assigned == assign_rider_to_paid_delivery(D, l.arg.oid,
                                                  l.arg.rider_id)
    IN
    CASE l.pc = "select_order" ->
            IF order = NoOrder THEN Return(l, D, "HTTP_500")
            ELSE IF order.sender_id # l.arg.uid THEN Return(l, D, "HTTP_500")
            ELSE IF order.status # "PAID_NEEDS_RIDER"
                 THEN Return(l, D, "HTTP_500")
            ELSE Goto(l, D, "rpc")
      [] l.pc = "rpc" ->
            IF assigned.raised THEN Return(l, D, "HTTP_400")
            ELSE IF assigned.success
            THEN Goto(Wrote(l), assigned.D, "notify")
            ELSE Return(l, assigned.D, "success_false")
      [] OTHER ->
            IF notify_user(D, l.arg.rider_id) THEN Return(l, D, "success")
            ELSE Return(l, D, "HTTP_500")

\* the rider accepts or declines: the select names id, rider_id and status,
\* and the handler then reads delivery_status of the row (KeyError) or has
\* already raised its 403; both are wrapped into a 500
rider_delivery_action(l, D) == Return(l, D, "HTTP_500")

\* the rider picks the package up; the sender is notified after the writes
rider_picked_up(l, D) ==
    LET order == single_order(D, "delivery_orders", l.arg.oid)
        credited == credit_dispatch_escrow_on_pickup(D, l.loc.to_user_id,
                                                     l.loc.amount)
    IN
    CASE l.pc = "select_order" ->
            IF order = NoOrder THEN Return(l, D, "HTTP_500")
            ELSE IF order.rider_id # l.arg.uid THEN Return(l, D, "HTTP_500")
            ELSE IF order.status \notin {"ASSIGNED", "PICKED_UP"}
                 THEN Return(l, D, "HTTP_500")
            ELSE Goto([l EXCEPT !.loc.amount = order.delivery_fee,
                                !.loc.to_user_id = order.dispatch_id,
                                !.loc.from_user_id = order.sender_id],
                      D, "rpc")
      [] l.pc = "rpc" ->
            IF credited.ok
            THEN Goto([l EXCEPT !.eff.wallet = @ + 1], credited.D,
                      "update_order")
            ELSE Return(l, D, "HTTP_500")
      [] l.pc = "update_order" ->
            Goto(Wrote(l),
                 [D EXCEPT !.orders[l.arg.oid].status = "IN_TRANSIT"],
                 "notify")
      [] OTHER ->
            IF notify_user(D, l.loc.from_user_id) THEN Return(l, D, "success")
            ELSE Return(l, D, "HTTP_500")

\* the rider reports the package delivered; the sender, whose id the
\* handler selects after the write, is notified
rider_confirm_delivery(l, D) ==
    LET order == single_order(D, "delivery_orders", l.arg.oid) IN
    CASE l.pc = "select_order" ->
            IF order = NoOrder THEN Return(l, D, "HTTP_500")
            ELSE IF order.rider_id # l.arg.uid THEN Return(l, D, "HTTP_500")
            ELSE IF order.status # "IN_TRANSIT"
                 THEN Return(l, D, "HTTP_500")
            ELSE Goto(l, D, "update_order")
      [] l.pc = "update_order" ->
            Goto(Wrote(l),
                 [D EXCEPT !.orders[l.arg.oid].status = "DELIVERED"],
                 "select_sender")
      [] l.pc = "select_sender" ->
            Goto([l EXCEPT !.loc.from_user_id = order.sender_id], D, "notify")
      [] OTHER ->
            IF notify_user(D, l.loc.from_user_id) THEN Return(l, D, "success")
            ELSE Return(l, D, "HTTP_500")

\* the sender confirms receipt: the one release of the delivery flow
sender_confirm_receipt(l, D) ==
    LET order == single_order(D, "delivery_orders", l.arg.oid)
        full_amount == l.loc.amount
        dispatch_amount == Share(full_amount,
                                 get_commission_rate("DELIVERY").rate)
        released == release_from_dispatch_escrow(D, l.loc.to_user_id,
                                                 full_amount, dispatch_amount)
    IN
    CASE l.pc = "select_order" ->
            IF order = NoOrder THEN Return(l, D, "HTTP_500")
            ELSE IF order.sender_id # l.arg.uid THEN Return(l, D, "HTTP_403")
            ELSE IF order.status # "DELIVERED" THEN Return(l, D, "HTTP_400")
            ELSE Goto([l EXCEPT !.loc.amount = order.delivery_fee,
                                !.loc.to_user_id = order.dispatch_id],
                      D, "rpc")
      [] l.pc = "rpc" ->
            IF released.ok
            THEN Goto([l EXCEPT !.eff.wallet = @ + 1], released.D,
                      "update_order")
            ELSE Return(l, D, "HTTP_400")
      [] l.pc = "update_order" ->
            Goto(Wrote(l),
                 [D EXCEPT !.orders[l.arg.oid].status = "COMPLETED"],
                 "log_audit_event")
      [] OTHER -> log_audit_event(l, D, "success")

\* the sender or the order's rider cancels; refunded is computed from the
\* status the select returned, and no call of the handler names a wallet
cancel_delivery(l, D) ==
    LET order == single_order(D, "delivery_orders", l.arg.oid)
        is_sender == l.arg.uid = order.sender_id
        is_rider == user_type(l.arg.uid) = "RIDER"
                        /\ l.arg.uid = order.rider_id
    IN
    CASE l.pc = "select_order" ->
            IF order = NoOrder THEN Return(l, D, "HTTP_500")
            ELSE IF ~(is_sender \/ is_rider) THEN Return(l, D, "HTTP_500")
            ELSE IF order.status \in {"DELIVERED", "COMPLETED"}
                 THEN Return(l, D, "HTTP_500")
            ELSE Goto([l EXCEPT !.loc.status = order.status], D,
                      "update_order")
      [] OTHER ->
            Return(Wrote(l),
                   [D EXCEPT !.orders[l.arg.oid].status = "CANCELLED"],
                   IF l.loc.status \in {"PAID_NEEDS_RIDER", "ASSIGNED"}
                   THEN "refunded" ELSE "not_refunded")

\* a request to a delivery handler
DeliveryCall(p, op, oid, uid, rider_id) ==
    /\ StartTracked(p, Call(op, "select_order",
            [NoArg EXCEPT !.oid = oid, !.uid = uid, !.rider_id = rider_id,
                          !.snap = Found_by_handler(op, oid)]),
            MaxDeliveryCalls)

assign_rider_to_order_request(p, oid, uid, rider_id) ==
    DeliveryCall(p, "assign_rider_to_order", oid, uid, rider_id)

assign_rider_to_order_step(p) ==
    \E rows \in FcmTables, way \in Refusals :
        OrderStep(p, "assign_rider_to_order",
                  assign_rider_to_order(procs[p],
                        refusing(fcm_tokens(DB, rows), way)))

rider_delivery_action_request(p, oid, uid) ==
    DeliveryCall(p, "rider_delivery_action", oid, uid, NONE)

rider_delivery_action_step(p) ==
    OrderStep(p, "rider_delivery_action",
              rider_delivery_action(procs[p], DB))

rider_picked_up_request(p, oid, uid) ==
    DeliveryCall(p, "rider_picked_up", oid, uid, NONE)

rider_picked_up_step(p) ==
    \E rows \in FcmTables :
        OrderStep(p, "rider_picked_up",
                  rider_picked_up(procs[p], fcm_tokens(DB, rows)))

rider_confirm_delivery_request(p, oid, uid) ==
    DeliveryCall(p, "rider_confirm_delivery", oid, uid, NONE)

rider_confirm_delivery_step(p) ==
    \E rows \in FcmTables :
        OrderStep(p, "rider_confirm_delivery",
                  rider_confirm_delivery(procs[p], fcm_tokens(DB, rows)))

sender_confirm_receipt_request(p, oid, uid) ==
    DeliveryCall(p, "sender_confirm_receipt", oid, uid, NONE)

sender_confirm_receipt_step(p) ==
    OrderStep(p, "sender_confirm_receipt",
              sender_confirm_receipt(procs[p], DB))

cancel_delivery_request(p, oid, uid) ==
    DeliveryCall(p, "cancel_delivery", oid, uid, NONE)

cancel_delivery_step(p) ==
    OrderStep(p, "cancel_delivery", cancel_delivery(procs[p], DB))

----------------------------------------------------------------------------
(* The delivery lifecycle of one paid order                                *)

\* the columns status and delivery_fee of delivery_orders, which the
\* lifecycle handlers read and the materialization does not write: the
\* datastore leaves them null ("as_inserted") or fills them from
\* order_status and grand_total ("filled")
Schemas == {"as_inserted", "filled"}

\* how far the lifecycle of the order has come: paid, a rider assigned,
\* picked up, reported delivered
DeliveryStages == {"PAID_NEEDS_RIDER", "ASSIGNED", "IN_TRANSIT", "DELIVERED"}

\* the order row of a materialized delivery payment, as the handlers of the
\* lifecycle have left it at the stage
SeedDelivery(schema, fee, stage) ==
    LET row == [NoOrder EXCEPT !.table = "delivery_orders",
                    !.sender_id = "cust",
                    !.grand_total = fee,
                    !.amount_due_dispatch =
                        Share(fee, get_commission_rate("DELIVERY").rate),
                    !.order_status = "PAID_NEEDS_RIDER",
                    !.payment_status = "PAID",
                    !.escrow_status = "HELD"]
        filled == [row EXCEPT !.status = stage, !.delivery_fee = fee]
    IN
    IF schema # "filled" THEN row
    ELSE IF stage = "PAID_NEEDS_RIDER" THEN filled
    ELSE [filled EXCEPT !.rider_id = "rider",
                        !.dispatch_id = dispatch_of("rider")]

\* the transaction row of a materialized delivery payment
SeedDeliveryTx(fee) ==
    [NoTx EXCEPT !.tx_ref = <<"DEL-", 1>>, !.amount = fee,
        !.from_user_id = "cust", !.to_user_id = NONE, !.order_id = 1,
        !.transaction_type = "DELIVERY_FEE", !.status = "HELD"]

\* the callers of the delivery handlers: the sender, the riders and a user
\* that is neither
DeliveryCallers == {"cust", "vend"} \cup Riders

InitDelivery ==
    /\ \E schema \in Schemas, fee \in Amounts, stage \in DeliveryStages :
        /\ schema = "as_inserted" => stage = "PAID_NEEDS_RIDER"
        /\ orders = << SeedDelivery(schema, fee, stage) >>
        /\ transactions = << SeedDeliveryTx(fee) >>
        /\ wallets = [ u \in Users |->
                [ balance |-> 0,
                  escrow_balance |->
                    IF u = "cust" THEN fee
                    ELSE IF u = "disp" /\ stage \in {"IN_TRANSIT", "DELIVERED"}
                         THEN fee ELSE 0 ] ]
    /\ pending = [ k \in {} |-> NoIntent ]
    /\ rq_jobs = NoRows
    /\ platform_commissions = 0
    /\ disputes = NoRows
    /\ escrow_agreements = NoRows
    /\ escrow_agreement_parties = NoRows
    /\ escrow_completion_proposals = NoRows
    /\ withdrawals = NoRows
    /\ materialized = [ r \in Refs |-> Unused ]
    /\ procs = [ p \in Procs |-> Idle ]
    /\ returned = Idle
    /\ calls = 0

NextDelivery ==
    \/ \E p \in Procs, oid \in 1..Len(orders), uid \in DeliveryCallers,
          rider_id \in Riders :
            assign_rider_to_order_request(p, oid, uid, rider_id)
    \/ \E p \in Procs, oid \in 1..Len(orders), uid \in DeliveryCallers :
            \/ rider_delivery_action_request(p, oid, uid)
            \/ rider_picked_up_request(p, oid, uid)
            \/ rider_confirm_delivery_request(p, oid, uid)
            \/ sender_confirm_receipt_request(p, oid, uid)
            \/ cancel_delivery_request(p, oid, uid)
    \/ \E p \in Procs :
            \/ assign_rider_to_order_step(p)
            \/ rider_delivery_action_step(p)
            \/ rider_picked_up_step(p)
            \/ rider_confirm_delivery_step(p)
            \/ sender_confirm_receipt_step(p)
            \/ cancel_delivery_step(p)

SpecDelivery == InitDelivery /\ [][NextDelivery]_vars

----------------------------------------------------------------------------
(* Properties of the delivery lifecycle                                    *)

\* the call that ended last was a confirm-receipt by the sender that
\* completed an order the rider had reported delivered
ReceiptConfirmed ==
    /\ Sequential
    /\ returned.op = "sender_confirm_receipt"
    /\ returned.res = "success"
    /\ returned.arg.snap.row.status = "DELIVERED"
    /\ orders[returned.arg.oid].status = "COMPLETED"

\* C17: when the sender's confirm-receipt completes a delivery order that
\* went from its paid row through assignment, pickup and the rider's
\* delivery confirmation, the full fee held for the order has left the
\* sender's escrow_balance, the balance of the dispatch has grown by the
\* fee times the delivery rate, and the transaction of the order is
\* RELEASED.
C17_ReceiptSettlesSender ==
    ReceiptConfirmed =>
        LET before == returned.arg.snap
            sender == before.row.sender_id
            fee == before.row.grand_total
        IN
        /\ wallets[sender].escrow_balance
                = before.wallets[sender].escrow_balance - fee
        /\ wallets[before.row.dispatch_id].balance
                = before.wallets[before.row.dispatch_id].balance
                    + Share(fee, VendorSharePct)
        /\ TxOf(returned.arg.oid).status = "RELEASED"

\* what the confirm-receipt does settle: the dispatch is paid its share out
\* of its own escrow and the platform keeps the remainder
ReceiptPaysDispatch ==
    ReceiptConfirmed =>
        LET before == returned.arg.snap
            disp == before.row.dispatch_id
            fee == before.row.delivery_fee
        IN
        /\ wallets = [before.wallets EXCEPT
                ![disp].escrow_balance = @ - fee,
                ![disp].balance = @ + Share(fee, VendorSharePct)]
        /\ platform_commissions
                = before.platform_commissions
                    + (fee - Share(fee, VendorSharePct))
        /\ TxOf(returned.arg.oid).status = "HELD"

\* a delivery order was completed by its sender
ReceiptConfirmedSeen ==
    /\ ReceiptConfirmed
    /\ wallets["disp"].balance > 0

\* the call that ended last was a cancel_delivery that reported a refund
CancelledRefunded ==
    /\ Sequential
    /\ returned.op = "cancel_delivery"
    /\ returned.res = "refunded"

\* C18: a cancel_delivery that found the order PAID_NEEDS_RIDER or ASSIGNED
\* and reports refunded = true has moved the full fee from the sender's
\* escrow_balance to the sender's balance.
C18_CancelBeforePickupRefunds ==
    CancelledRefunded =>
        LET before == returned.arg.snap
            sender == before.row.sender_id
            fee == before.row.grand_total
        IN
        wallets = [before.wallets EXCEPT
                ![sender].escrow_balance = @ - fee,
                ![sender].balance = @ + fee]

\* no run of cancel_delivery changes a wallet, before or after pickup
CancelTouchesNoWallet ==
    (Sequential /\ returned.op = "cancel_delivery")
        => /\ wallets = returned.arg.snap.wallets
           /\ returned.eff.wallet = 0

\* a cancellation after pickup went through without refund
CancelAfterPickupSeen ==
    /\ Sequential
    /\ returned.op = "cancel_delivery"
    /\ returned.res = "not_refunded"
    /\ returned.arg.snap.row.status = "IN_TRANSIT"

----------------------------------------------------------------------------
(* Funding of an escrow agreement                                          *)

\* the call that ended last was a fund_escrow_agreement
FundCallEnds ==
    /\ Sequential
    /\ returned.op = "fund_escrow_agreement"

\* the caller is the initiator of a READY_FOR_FUNDING agreement and has
\* amount + commission in the balance
FundPreconditions ==
    LET a == returned.arg.snap.row IN
    /\ returned.arg.uid = a.initiator_id
    /\ a.status = "READY_FOR_FUNDING"
    /\ returned.arg.snap.wallets[returned.arg.uid].balance >= Funding(a)

FundRaisesUnchanged ==
    FundCallEnds =>
        /\ returned.res = "HTTP_500"
        /\ wallets = returned.arg.snap.wallets
        /\ escrow_agreements[returned.arg.aid] = returned.arg.snap.row

\* the initiator tried to fund an agreement that was ready for it
FundByInitiatorSeen == FundCallEnds /\ FundPreconditions

----------------------------------------------------------------------------
(* Resolution of a dispute on an order                                     *)

\* the status of the order as get_order reports it to every caller
StatusOf(oid) == get_order(DB, oid, OrderType(oid)).status

\* the call that ended last was a resolution by an admin of a dispute that
\* was open, on an order whose transaction was HELD with the amount in the
\* payer's escrow
ResolvedOpenHeld ==
    /\ Sequential
    /\ returned.op = "resolve_dispute"
    /\ returned.arg.uid \in Admins
    /\ returned.arg.pre = NONE
    /\ returned.arg.resolution \in {"BUYER_FAVOR", "SELLER_FAVOR"}
    /\ returned.arg.snap.tx_status = "HELD"
    /\ returned.arg.snap.wallets[TxOf(returned.arg.oid).from_user_id]
            .escrow_balance >= TxOf(returned.arg.oid).amount

\* the wallets after the resolution of the call that ended last
WalletsResolved ==
    LET tx == TxOf(returned.arg.oid)
        before == returned.arg.snap.wallets
    IN
    IF returned.arg.resolution = "BUYER_FAVOR"
    THEN [before EXCEPT ![tx.from_user_id].escrow_balance = @ - tx.amount,
                        ![tx.from_user_id].balance = @ + tx.amount]
    ELSE [before EXCEPT ![tx.from_user_id].escrow_balance = @ - tx.amount,
                        ![tx.to_user_id].balance = @ + tx.amount]

\* C21: the resolution of an open dispute on an order whose transaction is
\* HELD moves the full amount out of the payer's escrow_balance, into the
\* payer's balance with BUYER_FAVOR and into the payee's balance with
\* SELLER_FAVOR, leaves the order CANCELLED respectively COMPLETED and the
\* dispute RESOLVED.
C21_ResolutionSettlesOrder ==
    ResolvedOpenHeld =>
        /\ wallets = WalletsResolved
        /\ StatusOf(returned.arg.oid)
                = IF returned.arg.resolution = "BUYER_FAVOR"
                  THEN "CANCELLED" ELSE "COMPLETED"
        /\ disputes[returned.arg.did].status = "RESOLVED"

\* what the resolution does: it raises TypeError at the update of the
\* dispute and leaves the wallets, the order, its transaction and the
\* dispute as it found them
ResolutionRaisesUnchanged ==
    ResolvedOpenHeld =>
        /\ returned.res = "TypeError"
        /\ NoEffect(returned)
        /\ wallets = returned.arg.snap.wallets
        /\ disputes[returned.arg.did].status = "OPEN"
        /\ disputes[returned.arg.did].resolved_by_id = NONE
        /\ orders[returned.arg.oid] = returned.arg.snap.row
        /\ TxOf(returned.arg.oid).status = "HELD"

\* no step of a resolve_dispute run writes to a table
ResolveWritesNothing ==
    [][ \A p \in Procs :
            (procs[p].op = "resolve_dispute" /\ procs'[p] # procs[p])
                => UNCHANGED Tables ]_vars

\* an admin has asked for a resolution for the buyer of an open dispute
BuyerFavorSeen ==
    ResolvedOpenHeld /\ returned.arg.resolution = "BUYER_FAVOR"
        /\ returned.res = "TypeError"

----------------------------------------------------------------------------
(* Opening a dispute                                                       *)

\* the call that ended last was a create_dispute, overlapped by no other
\* request, on an order that had the given status when the call arrived
DisputeCallFound(order_status) ==
    /\ returned.op = "create_dispute"
    /\ returned.arg.alone
    /\ returned.arg.snap.row.order_status = order_status

\* C22: a create_dispute on an order that is COMPLETED or CANCELLED fails
\* and inserts no dispute row.
C22_NoDisputeOnClosedOrder ==
    (DisputeCallFound("COMPLETED") \/ DisputeCallFound("CANCELLED"))
        => (IsError(returned.res) /\ returned.eff.writes = 0)

\* the part the handler keeps: a CANCELLED order, like a PENDING or
\* PREPARING one, is refused with no row inserted
CancelledOrderNotDisputable ==
    \A st \in {"CANCELLED", "PENDING", "PREPARING"} :
        DisputeCallFound(st)
            => (returned.res = "HTTP_404" /\ returned.eff.writes = 0)

\* a dispute was asked for on a cancelled order
CancelledDisputeSeen == DisputeCallFound("CANCELLED")

\* a dispute was opened on a completed order
CompletedDisputeSeen ==
    DisputeCallFound("COMPLETED") /\ returned.res = "success"

----------------------------------------------------------------------------
(* Retries of a materialization job after a datastore call has raised      *)

\* the worker takes a queued job, the first time or after a backoff interval
rq_retry_job(p, job) ==
    /\ calls' = calls
    /\ rq_worker(p, job)

\* the gateway reports the charge of an issued tx_ref with its amount, or
\* the charge of the earlier order once more
ChargeReports ==
    { << FLW_SECRET_HASH, "charge.completed", "successful", r, a >> :
            r \in Issued \cup {EarlierRef}, a \in Quotes }

NextRetry ==
    \/ \E p \in Procs, u \in Payers, a \in Quotes :
            initiate_delivery_payment(p, u, a)
    \/ \E p \in Procs, d \in ChargeReports :
            webhook_request(p, d[1], d[2], d[3], d[4], d[5])
    \/ \E p \in Procs : webhook_step(p)
    \/ \E p \in Procs, j \in 1..Len(rq_jobs) : rq_retry_job(p, j)
    \/ \E p \in Procs : delivery_payment_step(p)

\* the worker keeps taking queued jobs, and a started call of a handler or
\* of a job function runs on to its end
RetryFairness ==
    /\ WF_vars(\E p \in Procs, j \in 1..Len(rq_jobs) : rq_retry_job(p, j))
    /\ \A p \in Procs :
        /\ WF_vars(webhook_step(p))
        /\ WF_vars(delivery_payment_step(p))

SpecRetry == InitWebhook /\ [][NextRetry]_vars /\ RetryFairness

\* the tx_refs of orders
OrderRefs == { r \in Refs : r[1] \in {"DEL-", "FOOD-"} }

\* an attempt of a job of the tx_ref has read the intent, a datastore call
\* of it has raised, and the job has a retry left
FailedTransiently(tx_ref) ==
    \E p \in Procs :
        /\ procs[p].op \in OrderMaterializers
        /\ procs[p].arg.ref = tx_ref
        /\ procs[p].pc = "except"
        /\ Found(procs[p])
        /\ procs[p].eff.raised > 0
        /\ rq_jobs[procs[p].arg.job].retries_left > 0

\* an order row, an escrow hold and a HELD transaction exist for the tx_ref
MaterializedRef(tx_ref) ==
    /\ materialized[tx_ref].orders >= 1
    /\ materialized[tx_ref].holds >= 1
    /\ \E i \in select_tx_by_ref(DB, tx_ref) : transactions[i].status = "HELD"

\* C23: an attempt of a job that read the pending intent and then failed
\* on a datastore call, with a retry left at which the datastore answers,
\* leads to the order being materialized: an order row, the escrow hold
\* and a HELD transaction exist for its tx_ref.
C23_FailedAttemptRecovers ==
    \A r \in OrderRefs : FailedTransiently(r) ~> MaterializedRef(r)

\* what happens instead: the failed attempt deletes the intent before it
\* raises again, so a job that waits for a retry has no intent to read
FailedAttemptLosesIntent ==
    \A j \in 1..Len(rq_jobs) :
        ( /\ rq_jobs[j].handler = "process_successful_delivery_payment"
          /\ rq_jobs[j].retries_left < RetryMax )
            => \A k \in DOMAIN pending : k[2] # rq_jobs[j].tx_ref

\* a retried job has finished with no transaction for its tx_ref
RetryFoundNothingSeen ==
    \E j \in 1..Len(rq_jobs) :
        /\ rq_jobs[j].status = "finished"
        /\ rq_jobs[j].retries_left < RetryMax
        /\ rq_jobs[j].handler \in OrderMaterializers
        /\ TxCount(rq_jobs[j].tx_ref) = 0
----------------------------------------------------------------------------
(* Concurrent confirmations of one order                                   *)

\* the step is the release call of a confirm-receipt run of p, and the
\* stored procedure has moved the amount
ReleaseApplied(p) ==
    /\ procs[p].op = "customer_confirm_food_order"
    /\ procs[p].pc = "release"
    /\ procs'[p].pc = "update_tx"

\* the amount of the order has been released before: its transaction says
\* so, or another run has made the release call and has not yet written it
AlreadyReleased(oid) ==
    \/ TxOf(oid).status = "RELEASED"
    \/ \E q \in Procs :
        /\ procs[q].op = "customer_confirm_food_order"
        /\ procs[q].arg.oid = oid
        /\ procs[q].pc = "update_tx"

\* C24: confirm-receipt requests for one READY order release its amount at
\* most once under every interleaving: no release call moves the amount of
\* an order whose amount a release call has moved before.
C24_ReceiptReleasesOnce ==
    [][ \A p \in Procs :
            ReleaseApplied(p) => ~AlreadyReleased(procs[p].arg.oid) ]_vars

\* what the second release takes: it is paid out of what the payer's
\* escrow holds for other orders, and it is refused only when nothing is left
SecondReleaseSeen ==
    /\ wallets["vend"].balance = 2 * Share(2000, VendorSharePct)
    /\ wallets["cust"].escrow_balance = 0
    /\ orders[1].order_status = "PENDING"

----------------------------------------------------------------------------
(* Concurrent resolutions of one dispute.  The customer's escrow holds two *)
(* paid orders; the first has been accepted and made ready, and a dispute  *)
(* on it is OPEN.                                                          *)

InitResolve ==
    /\ \E k \in SeedKinds :
        /\ orders = << DisputedOrder(k[1], SeedTotals[1], 1),
                       SeedOrder(k[2], SeedTotals[2]) >>
        /\ transactions = [ i \in 1..2 |-> SeedTx(i, k[i], SeedTotals[i]) ]
        /\ disputes = << SeedDispute(1, OrderTypeOf(k[1])) >>
    /\ wallets = [ u \in Users |->
            [ balance |-> 0,
              escrow_balance |-> IF u = "cust"
                                 THEN SeedTotals[1] + SeedTotals[2] ELSE 0 ] ]
    /\ pending = [ k \in {} |-> NoIntent ]
    /\ rq_jobs = NoRows
    /\ platform_commissions = 0
    /\ escrow_agreements = NoRows
    /\ escrow_agreement_parties = NoRows
    /\ escrow_completion_proposals = NoRows
    /\ withdrawals = NoRows
    /\ materialized = [ r \in Refs |-> Unused ]
    /\ procs = [ p \in Procs |-> Idle ]
    /\ returned = Idle
    /\ calls = 0

\* a resolve_dispute request arrives while another may be running
resolve_dispute_concurrently(p, did, resolution, uid) ==
    /\ did \in 1..Len(disputes)
    /\ StartWithin(p, Call("resolve_dispute", "is_admin",
            [NoArg EXCEPT !.did = did, !.uid = uid,
                          !.oid = disputes[did].order_id,
                          !.resolution = resolution]),
            MaxResolveCalls)

NextResolve ==
    \/ \E p \in Procs, did \in 1..Len(disputes), r \in Resolutions,
          uid \in Admins \cup {"cust"} :
            resolve_dispute_concurrently(p, did, r, uid)
    \/ \E p \in Procs : resolve_dispute_step(p)

SpecResolve == InitResolve /\ [][NextResolve]_vars

\* the step is the first wallet call of the refund or of the release of a
\* resolve_dispute run of p, and the stored procedure has applied it
MovementApplied(p) ==
    /\ procs[p].op = "resolve_dispute"
    /\ \/ procs[p].pc = "refund_debit" /\ procs'[p].pc = "refund_credit"
       \/ procs[p].pc = "release_debit" /\ procs'[p].pc = "release_credit"

\* a run has started the wallet movement of the dispute before: it is past
\* its first wallet call, or it has ended and has left its mark on the order
AlreadyMoved(did) ==
    \/ orders[disputes[did].order_id].status \in {"CANCELLED", "COMPLETED"}
    \/ \E q \in Procs :
        /\ procs[q].op = "resolve_dispute"
        /\ procs[q].arg.did = did
        /\ procs[q].pc \in { "refund_credit", "cancel_order",
                             "release_credit", "complete_order" }

\* C25: resolve_dispute requests for one open dispute apply the refund or
\* release wallet movement at most once under every interleaving: no run
\* starts the movement of a dispute for which a run has started it before.
C25_ResolutionMovesOnce ==
    [][ \A p \in Procs :
            MovementApplied(p) => ~AlreadyMoved(procs[p].arg.did) ]_vars

\* two resolutions of the open dispute have run into each other: both
\* have read it OPEN and passed the status check; one has ended, the other
\* is about to send its update
C25_Witness ==
    /\ returned.op = "resolve_dispute"
    /\ returned.arg.uid \in Admins
    /\ returned.res = "TypeError"
    /\ \E q \in Procs :
            /\ procs[q].op = "resolve_dispute"
            /\ procs[q].arg.did = returned.arg.did
            /\ procs[q].pc = "update_dispute"
    /\ disputes[returned.arg.did].status = "OPEN"

\* what the two runs move: nothing, each ends at its update
ConcurrentResolutionsMoveNothing ==
    [][ \A p \in Procs : ~MovementApplied(p) ]_vars

----------------------------------------------------------------------------
(* The lifecycle of a food, laundry or product order                       *)

OrderStatuses ==
    { "PENDING", "PREPARING", "ACCEPTED", "READY", "COMPLETED", "CANCELLED" }

MarkReadyOps ==
    { "vendor_mark_food_order_ready", "vendor_mark_laundry_order_ready",
      "vendor_mark_product_ready" }

TransitionOps == VendorActionOps \cup MarkReadyOps \cup ConfirmOps

\* the edges a run of the handler can take
EdgesOf(l) ==
    IF l.op \in VendorActionOps
    THEN IF l.arg.action = "accept"
         THEN { << "PENDING", "PREPARING" >>, << "PENDING", "ACCEPTED" >> }
         ELSE { << "PENDING", "CANCELLED" >> }
    ELSE IF l.op \in MarkReadyOps
    THEN { << "PREPARING", "READY" >>, << "ACCEPTED", "READY" >> }
    ELSE IF l.op \in ConfirmOps THEN { << "READY", "COMPLETED" >> }
    ELSE {}

\* the step changes the order_status of order i
StatusChanges(i) == orders'[i].order_status # orders[i].order_status

\* the step is the last of a run
RunEnds == \E p \in Procs : procs[p] # Idle /\ procs'[p] = Idle

\* the step is the select of a transition handler on order i that finds
\* the order in a status none of the handler's edges starts from
RequestedElsewhere(i) ==
    \E p \in Procs :
        /\ procs[p].op \in TransitionOps
        /\ procs[p].pc = "select_order"
        /\ procs[p].arg.oid = i
        /\ procs'[p].pc # "select_order"
        /\ \A e \in EdgesOf(procs[p]) : e[1] # orders[i].order_status

OutOfTurnRefused ==
    [][ \A i \in 1..Len(orders) :
            RequestedElsewhere(i) =>
                /\ RunEnds
                /\ IsError(returned'.res)
                /\ ~StatusChanges(i) ]_vars

\* a run that no other request overlapped changes the order_status along
\* an edge of its handler
SequentialStatusEdges ==
    [][ \A i \in 1..Len(orders) :
            StatusChanges(i) /\ RunEnds /\ returned'.arg.alone
                => << orders[i].order_status, orders'[i].order_status >>
                        \in EdgesOf(returned') ]_vars

\* a reject that read the order while it was PENDING has cancelled it after
\* an accept, in flight at the same time, had moved it on
AcceptedThenCancelledSeen ==
    /\ returned.op \in VendorActionOps
    /\ returned.arg.action = "reject"
    /\ returned.res = "success"
    /\ ~returned.arg.alone
    /\ orders[returned.arg.oid].order_status = "CANCELLED"
    /\ returned.arg.snap.row.order_status = "PENDING"

\* an order has gone from PENDING to COMPLETED, and a transition requested
\* on it afterwards was refused
C26_Witness ==
    /\ returned.op \in TransitionOps
    /\ returned.arg.snap.row.order_status = "COMPLETED"
    /\ IsError(returned.res)
    /\ orders[returned.arg.oid].order_status = "COMPLETED"

----------------------------------------------------------------------------
(* The lifecycle of a delivery order                                       *)

\* the edges of the lifecycle, the cancellations apart
DeliveryEdges ==
    { << "PAID_NEEDS_RIDER", "ASSIGNED" >>, << "ASSIGNED", "ACCEPTED" >>,
      << "ACCEPTED", "IN_TRANSIT" >>, << "IN_TRANSIT", "DELIVERED" >>,
      << "DELIVERED", "COMPLETED" >> }

\* a cancellation from a status that allows one
CancelEdge(from, to) ==
    to = "CANCELLED" /\ from \notin {"DELIVERED", "COMPLETED", "CANCELLED"}

\* the status each action requires the order to be in
RequiredStatus(op) ==
    CASE op = "assign_rider_to_order" -> {"PAID_NEEDS_RIDER"}
      [] op = "rider_delivery_action" -> {"ASSIGNED"}
      [] op = "rider_picked_up" -> {"ACCEPTED"}
      [] op = "rider_confirm_delivery" -> {"IN_TRANSIT"}
      [] op = "sender_confirm_receipt" -> {"DELIVERED"}
      [] OTHER -> {}

\* the step changes the status of delivery order i
DeliveryStatusChanges(i) == orders'[i].status # orders[i].status

\* the step is the end of a rider or sender action on order i that found
\* the order in another status than the one the action requires
ActionOutOfTurn(i) ==
    /\ returned' # returned
    /\ returned'.arg.oid = i
    /\ RequiredStatus(returned'.op) # {}
    /\ returned'.arg.snap.row.status \notin RequiredStatus(returned'.op)

\* C27: the status of a delivery order changes only along PAID_NEEDS_RIDER
\* -> ASSIGNED -> ACCEPTED -> IN_TRANSIT -> DELIVERED -> COMPLETED, or to
\* CANCELLED from a status other than DELIVERED, COMPLETED and CANCELLED;
\* COMPLETED and CANCELLED are never left; a rider or sender action
\* requested in another status than its required one fails and leaves the
\* order as it was.
C27_DeliveryStatusEdges ==
    [][ \A i \in 1..Len(orders) :
            /\ DeliveryStatusChanges(i) =>
                    \/ << orders[i].status, orders'[i].status >>
                            \in DeliveryEdges
                    \/ CancelEdge(orders[i].status, orders'[i].status)
            /\ ActionOutOfTurn(i) =>
                    /\ IsError(returned'.res)
                    /\ orders'[i] = orders[i] ]_vars

\* the step is of a run that no other request has overlapped
Unoverlapped == \E p \in Procs : procs[p].arg.alone

\* the lifecycle the handlers implement when their runs do not overlap: the
\* pickup takes an ASSIGNED order straight to IN_TRANSIT, ACCEPTED is never
\* written, and COMPLETED and CANCELLED are never left
DeliveryEdgesAsWritten ==
    [][ \A i \in 1..Len(orders) :
            DeliveryStatusChanges(i) /\ Unoverlapped =>
                \/ << orders[i].status, orders'[i].status >>
                        \in (DeliveryEdges \ { << "ASSIGNED", "ACCEPTED" >>,
                                               << "ACCEPTED", "IN_TRANSIT" >> })
                                \cup { << "ASSIGNED", "IN_TRANSIT" >> }
                \/ CancelEdge(orders[i].status, orders'[i].status) ]_vars

\* an assigned order was picked up
PickedUpFromAssignedSeen ==
    /\ returned.op = "rider_picked_up"
    /\ returned.res = "success"
    /\ returned.arg.snap.row.status = "ASSIGNED"
    /\ orders[returned.arg.oid].status = "IN_TRANSIT"

----------------------------------------------------------------------------
(* A transition retried after one of its ledger calls has raised           *)

\* the run that ended last was a reject in which a wallet call raised
RejectRaised ==
    /\ returned.op \in VendorActionOps
    /\ returned.arg.action = "reject"
    /\ returned.eff.raised > 0

\* the reject is being retried by p, after the first attempt has ended and
\* with no other request in flight, and the retry has made its wallet calls
\* and has written the transaction
RetryRefunded(p) ==
    /\ RejectRaised
    /\ returned.arg.alone
    /\ procs[p].arg.alone
    /\ procs[p].op = returned.op
    /\ procs[p].arg.oid = returned.arg.oid
    /\ procs[p].arg.action = "reject"
    /\ procs[p].pc = "reject"

\* C28: when a ledger call of a vendor reject has raised, the order and its
\* transaction keep the status they had, and the retry of the reject leaves
\* the refund applied exactly once in total: against the wallets the first
\* attempt found, the amount has left the payer's escrow_balance once and
\* has entered the payer's balance once.
C28_RetriedRejectRefundsOnce ==
    \A p \in Procs :
        RetryRefunded(p) =>
            LET first == returned.arg.snap
                again == procs[p].arg.snap
                tx == TxOf(returned.arg.oid)
            IN
            /\ again.row.order_status = first.row.order_status
            /\ again.tx_status = first.tx_status
            /\ wallets = [first.wallets EXCEPT
                    ![tx.from_user_id].escrow_balance = @ - tx.amount,
                    ![tx.from_user_id].balance = @ + tx.amount]

\* the first half: a reject in which a ledger call raised has written no
\* status, and the order can be rejected again
RaisedRejectKeepsStatus ==
    (RejectRaised /\ Sequential) =>
        /\ orders[returned.arg.oid].order_status
                = returned.arg.snap.row.order_status
        /\ TxOf(returned.arg.oid).status = returned.arg.snap.tx_status
        /\ returned.eff.writes = 0

\* a reject was retried after its credit had raised: the escrow was
\* debited by both attempts
RetriedRejectSeen ==
    \E p \in Procs :
        /\ RetryRefunded(p)
        /\ returned.eff.wallet = 1
        /\ wallets["cust"].escrow_balance
                = returned.arg.snap.wallets["cust"].escrow_balance
                    - 2 * TxOf(returned.arg.oid).amount

----------------------------------------------------------------------------
(* The lifecycle of an escrow agreement                                    *)

EscrowEdges ==
    { << "DRAFT", "PENDING_ACCEPTANCE" >>,
      << "PENDING_ACCEPTANCE", "READY_FOR_FUNDING" >>,
      << "READY_FOR_FUNDING", "FUNDED" >>, << "FUNDED", "IN_PROGRESS" >>,
      << "IN_PROGRESS", "COMPLETED" >> }

\* a cancellation from a status before FUNDED
EscrowCancelEdge(from, to) ==
    /\ to = "CANCELLED"
    /\ from \in {"DRAFT", "PENDING_ACCEPTANCE", "READY_FOR_FUNDING"}

\* the step is the end of a fund_escrow_agreement on an agreement that is
\* not waiting for its funding
FundedAgain ==
    /\ returned' # returned
    /\ returned'.op = "fund_escrow_agreement"
    /\ returned'.arg.snap.row.status # "READY_FOR_FUNDING"

\* C29: the status of an escrow agreement changes only along DRAFT ->
\* PENDING_ACCEPTANCE -> READY_FOR_FUNDING -> FUNDED -> IN_PROGRESS ->
\* COMPLETED, or to CANCELLED from a status before FUNDED; in particular no
\* accept, reject, fund, propose or vote takes a FUNDED, IN_PROGRESS,
\* COMPLETED or CANCELLED agreement back to READY_FOR_FUNDING; and a fund
\* call on an agreement that is not READY_FOR_FUNDING moves nothing, so an
\* agreement is funded at most once.
C29_EscrowStatusForward ==
    [][ /\ \A a \in 1..Len(escrow_agreements) :
            escrow_agreements'[a].status # escrow_agreements[a].status =>
                \/ << escrow_agreements[a].status,
                      escrow_agreements'[a].status >> \in EscrowEdges
                \/ EscrowCancelEdge(escrow_agreements[a].status,
                                    escrow_agreements'[a].status)
        /\ FundedAgain => (IsError(returned'.res) /\ wallets' = wallets) ]_vars

\* a recipient's accept arrived for a FUNDED agreement, and the agreement
\* is FUNDED still
C29_Witness ==
    /\ returned.op = "accept_escrow_agreement"
    /\ returned.arg.snap.row.status = "FUNDED"
    /\ returned.arg.snap.parties[returned.arg.invite_code].user_id
            = returned.arg.uid
    /\ escrow_agreements[returned.arg.aid].status = "FUNDED"

----------------------------------------------------------------------------
(* Rejection of an escrow agreement                                        *)

\* the call that ended last was a reject of the agreement by the party the
\* invite code belongs to
RejectedByParty ==
    /\ Sequential
    /\ returned.op = "reject_escrow_agreement"
    /\ LET party == returned.arg.snap.parties[returned.arg.invite_code] IN
        /\ party.agreement_id = returned.arg.aid
        /\ party.user_id = returned.arg.uid

\* a dispute on the agreement is recorded
DisputeOpened(aid) ==
    \E d \in 1..Len(disputes) :
        /\ disputes[d].order_id = aid
        /\ disputes[d].order_type = "ESCROW_AGREEMENT"

\* C30: a reject by an invited party of an agreement that is DRAFT,
\* PENDING_ACCEPTANCE or READY_FOR_FUNDING sets the agreement to CANCELLED;
\* a reject of a FUNDED agreement opens a dispute and leaves the status of
\* the agreement and every wallet as they were.
C30_RejectCancelsOrDisputes ==
    RejectedByParty =>
        LET before == returned.arg.snap
            agreement == escrow_agreements[returned.arg.aid]
        IN
        /\ before.row.status
                \in {"DRAFT", "PENDING_ACCEPTANCE", "READY_FOR_FUNDING"}
            => agreement.status = "CANCELLED"
        /\ before.row.status = "FUNDED"
            => /\ DisputeOpened(returned.arg.aid)
               /\ agreement.status = "FUNDED"
               /\ wallets = before.wallets

\* what a reject does: it answers 500 and writes nothing, whatever the
\* status of the agreement
RejectWritesNothing ==
    RejectedByParty =>
        /\ returned.res = "HTTP_500"
        /\ returned.eff = NoEff
        /\ escrow_agreements[returned.arg.aid] = returned.arg.snap.row
        /\ escrow_agreement_parties = returned.arg.snap.parties
        /\ wallets = returned.arg.snap.wallets
        /\ disputes = NoRows

\* a recipient has rejected an agreement that was PENDING_ACCEPTANCE
PendingRejectSeen ==
    /\ RejectedByParty
    /\ returned.arg.snap.row.status = "PENDING_ACCEPTANCE"
    /\ returned.arg.uid = "vend"

----------------------------------------------------------------------------
(* The pending intent at the end of a materialization run                  *)

\* the run that ended last is a materialization run that found its intent
FoundRunEnded == Materialized(returned) /\ Found(returned)

\* C31: every materialization run that finds the pending intent ends with
\* the intent deleted, whether it succeeds, detects an amount mismatch or
\* raises; and a run in which a step raised ends by raising to the job
\* runner.
C31_FoundIntentDeleted ==
    FoundRunEnded =>
        /\ IntentKey(returned) \notin DOMAIN pending
        /\ returned.eff.raised > 0 => IsError(returned.res)

\* the delivery and the top-up handler do so on every path
DeliveryTopupDeleteIntent ==
    ( /\ FoundRunEnded
      /\ returned.op \in { "process_successful_delivery_payment",
                           "process_successful_topup_payment" } )
        => C31_FoundIntentDeleted

\* a run of the food handler has raised with its intent left in the cache
FoodIntentLeftSeen ==
    /\ FoundRunEnded
    /\ returned.op = "process_successful_food_payment"
    /\ returned.res = "KeyError"
    /\ IntentKey(returned) \in DOMAIN pending

\* a run of the delivery handler has raised after deleting its intent
DeliveryRaisedSeen ==
    /\ FoundRunEnded
    /\ returned.op = "process_successful_delivery_payment"
    /\ returned.res = "AttributeError"

----------------------------------------------------------------------------
(* The end of a materialization job one of whose attempts has raised       *)

\* an attempt of the job has raised: the queue has taken one of its retries
AttemptRaised(job) == rq_jobs[job].retries_left < RetryMax

\* neither an order row nor a transaction exists for the tx_ref
NothingMaterialized(tx_ref) ==
    /\ materialized[tx_ref].orders = 0
    /\ TxCount(tx_ref) = 0

\* C32: a materialization job one of whose attempts has raised never ends
\* in the succeeded state while neither an order nor a transaction exists
\* for its tx_ref: it ends with the order materialized, or failed.
C32_RaisedJobNeverSucceedsEmpty ==
    \A j \in 1..Len(rq_jobs) :
        ( /\ rq_jobs[j].handler \in OrderMaterializers
          /\ AttemptRaised(j)
          /\ rq_jobs[j].status = "finished" )
            => ~NothingMaterialized(rq_jobs[j].tx_ref)

\* what the queue shows instead: a job of the delivery handler whose
\* attempt has raised is queued, running or finished, never failed
RaisedJobNeverFailed ==
    \A j \in 1..Len(rq_jobs) :
        ( /\ rq_jobs[j].handler = "process_successful_delivery_payment"
          /\ AttemptRaised(j) )
            => rq_jobs[j].status # "failed"

\* a job has finished after its insert of the order row had raised
EmptySuccessSeen ==
    \E j \in 1..Len(rq_jobs) :
        /\ rq_jobs[j].status = "finished"
        /\ AttemptRaised(j)
        /\ NothingMaterialized(rq_jobs[j].tx_ref)
        /\ rq_jobs[j].tx_ref \in Issued

----------------------------------------------------------------------------
(* The pickup of a delivery order by its rider                             *)

\* the call that ended last was a pickup by the rider of an order that was
\* ASSIGNED or ACCEPTED
PickupRequested ==
    /\ Sequential
    /\ returned.op = "rider_picked_up"
    /\ returned.arg.uid = returned.arg.snap.row.rider_id
    /\ returned.arg.snap.row.status \in {"ASSIGNED", "ACCEPTED"}

\* the wallets after the pickup: the escrow_balance of the dispatch has
\* grown by the full fee and nothing else has moved
WalletsAfterPickup ==
    LET before == returned.arg.snap IN
    wallets = [before.wallets EXCEPT
                    ![before.row.dispatch_id].escrow_balance =
                        @ + before.row.delivery_fee]

\* C33: a rider pickup on a delivery order that is ASSIGNED or ACCEPTED
\* credits the escrow_balance of the dispatch by the full fee, leaves the
\* sender's wallet as it was, sets the order to IN_TRANSIT and sets the
\* transaction of the order to TRANSFERRED_TO_DISPATCH.
C33_PickupTransfersToDispatch ==
    PickupRequested =>
        /\ returned.res = "success"
        /\ WalletsAfterPickup
        /\ orders[returned.arg.oid].status = "IN_TRANSIT"
        /\ TxOf(returned.arg.oid).status = "TRANSFERRED_TO_DISPATCH"

\* what the pickup does: the credit and the status, with the transaction
\* left as the materialization wrote it; the call reports a 500 when the
\* notification of the sender raises after that
PickupLeavesTransaction ==
    PickupRequested =>
        /\ returned.res \in {"success", "HTTP_500"}
        /\ WalletsAfterPickup
        /\ orders[returned.arg.oid].status = "IN_TRANSIT"
        /\ TxOf(returned.arg.oid).status = returned.arg.snap.tx_status

\* over any sequence of calls that do not overlap the dispatch escrow is
\* credited at most once per order: a pickup credits only an order that is
\* not yet IN_TRANSIT
PickupCreditsOnce ==
    [][ \A p \in Procs :
            ( /\ procs[p].op = "rider_picked_up"
              /\ procs[p].pc = "rpc"
              /\ procs[p].arg.alone
              /\ wallets' # wallets )
                => /\ orders[procs[p].arg.oid].status = "ASSIGNED"
                   /\ wallets[orders[procs[p].arg.oid].dispatch_id]
                            .escrow_balance = 0 ]_vars

\* a pickup has credited the dispatch with the transaction still HELD
PickupHeldSeen ==
    /\ PickupRequested
    /\ returned.res = "success"
    /\ TxOf(returned.arg.oid).status = "HELD"
    /\ wallets[returned.arg.snap.row.dispatch_id].escrow_balance
            = returned.arg.snap.row.delivery_fee

----------------------------------------------------------------------------
(* Top-ups of one wallet that is close to its limit                        *)

\* the balance of the user's wallet before the top-ups
SeedBalances == {46000, 48000}

InitTopUp ==
    /\ \E b \in SeedBalances :
        wallets = [ u \in Users |->
            [ balance |-> IF u = "cust" THEN b ELSE 0, escrow_balance |-> 0 ] ]
    /\ transactions = NoRows
    /\ orders = NoRows
    /\ pending = [ k \in {} |-> NoIntent ]
    /\ rq_jobs = NoRows
    /\ platform_commissions = 0
    /\ disputes = NoRows
    /\ escrow_agreements = NoRows
    /\ escrow_agreement_parties = NoRows
    /\ escrow_completion_proposals = NoRows
    /\ withdrawals = NoRows
    /\ materialized = [ r \in Refs |-> Unused ]
    /\ procs = [ p \in Procs |-> Idle ]
    /\ returned = Idle
    /\ calls = 0

\* the gateway reports the charge of an issued top-up with an amount
TopUpReports ==
    { << FLW_SECRET_HASH, "charge.completed", "successful", r, a >> :
            r \in { i \in Issued : i[1] = "TOPUP-" }, a \in Quotes }

NextTopUp ==
    \/ \E p \in Procs, u \in Payers, a \in Quotes :
            initiate_wallet_top_up_request(p, u, a)
    \/ \E p \in Procs : initiate_wallet_top_up_step(p)
    \/ \E p \in Procs, d \in TopUpReports :
            webhook_request(p, d[1], d[2], d[3], d[4], d[5])
    \/ \E p \in Procs : webhook_step(p)
    \/ \E p \in Procs, j \in 1..Len(rq_jobs) : rq_retry_job(p, j)
    \/ \E p \in Procs : topup_payment_step(p)

SpecTopUp == InitTopUp /\ [][NextTopUp]_vars

\* C34: after any sequence of top-up initiations and top-up webhook
\* materializations for one user, several initiations made before any of
\* them is paid included, the balance of the user's wallet never exceeds
\* the maximum wallet balance of 50,000.
C34_BalanceWithinLimit ==
    \A u \in Users : wallets[u].balance <= MAX_WALLET_LIMIT

\* what the initiation does enforce: an intent is staged only with an
\* amount that fits under the limit at the time of the request
InitiationWithinLimit ==
    [][ \A k \in DOMAIN pending' \ DOMAIN pending :
            /\ pending'[k].amount >= MIN_TOP_UP
            /\ wallets[pending'[k].user_id].balance + pending'[k].amount
                    <= MAX_WALLET_LIMIT ]_vars

\* two top-ups were initiated at a balance of 48,000 before either was
\* paid, both charges were reported and both jobs have ended after an
\* attempt that raised
C34_Witness ==
    /\ wallets["cust"].balance = 48000
    /\ \A r \in { <<"TOPUP-", 1>>, <<"TOPUP-", 2>> } :
            \E j \in 1..Len(rq_jobs) :
                /\ rq_jobs[j].tx_ref = r
                /\ rq_jobs[j].paid_amount = 2000
                /\ rq_jobs[j].retries_left < RetryMax
                /\ rq_jobs[j].status = "finished"

\* no run of the top-up handler credits the wallet or writes a transaction
TopUpRunCreditsNothing ==
    returned.op = "process_successful_topup_payment"
        => returned.eff = [NoEff EXCEPT !.raised = returned.eff.raised]

----------------------------------------------------------------------------
(* The transaction of an order that has reached a terminal status          *)

\* C35: in every reachable state, an order whose status is COMPLETED has
\* its transaction RELEASED and an order whose status is CANCELLED has its
\* transaction REFUNDED: no operation brings an order to a terminal status
\* with its transaction still HELD or TRANSFERRED_TO_DISPATCH.
C35_TerminalOrderSettled ==
    \A i \in 1..Len(orders) :
        /\ orders[i].status = "COMPLETED" => TxOf(i).status = "RELEASED"
        /\ orders[i].status = "CANCELLED" => TxOf(i).status = "REFUNDED"

\* what the delivery handlers do: none of them writes to transactions, so
\* the transaction of a delivery order is as the materialization left it
DeliveryTransactionsUntouched ==
    [][ transactions' = transactions ]_vars

\* a cancelled delivery order has its transaction HELD and its fee in the
\* sender's escrow
CancelledHeldSeen ==
    /\ returned.op = "cancel_delivery"
    /\ returned.res = "refunded"
    /\ orders[returned.arg.oid].status = "CANCELLED"
    /\ TxOf(returned.arg.oid).status = "HELD"
    /\ wallets["cust"].escrow_balance = orders[returned.arg.oid].grand_total

\* a completed delivery order has its transaction HELD
CompletedHeldSeen ==
    /\ returned.op = "sender_confirm_receipt"
    /\ returned.res = "success"
    /\ orders[returned.arg.oid].status = "COMPLETED"
    /\ TxOf(returned.arg.oid).status = "HELD"

----------------------------------------------------------------------------
(* The settlement of a funded escrow agreement                             *)

\* no call settles an agreement: the vote-based release and the handlers
\* before it raise at their first select, and the resolution of a dispute
\* on an agreement raises at its update of the dispute, ahead of get_order,
\* which knows no such order type; so a funded
\* agreement stays funded with amount + commission in the initiator's
\* escrow_balance, and no agreement is ever COMPLETED
AgreementNeverSettled ==
    \A a \in 1..Len(escrow_agreements) :
        /\ escrow_agreements[a].status # "COMPLETED"
        /\ escrow_agreements[a].status \in FundedStatuses =>
                wallets[escrow_agreements[a].initiator_id].escrow_balance
                    = Funding(escrow_agreements[a])

----------------------------------------------------------------------------
(* A resolution of a dispute whose wallet movement raises                  *)

\* the resolutions that move the held amount
FavorResolutions == {"BUYER_FAVOR", "SELLER_FAVOR"}

\* the call that ended last was a resolution in favour of one party, by an
\* admin, and it has left the dispute RESOLVED
ResolutionRecorded ==
    /\ Sequential
    /\ returned.op = "resolve_dispute"
    /\ returned.arg.uid \in Admins
    /\ returned.arg.resolution \in FavorResolutions
    /\ returned.arg.pre # "resolved"
    /\ disputes[returned.arg.did].status = "RESOLVED"

\* C37: a dispute that is RESOLVED with the resolution BUYER_FAVOR or
\* SELLER_FAVOR has had its two wallet calls and its order status update
\* applied: a resolution in which the wallet movement raised does not
\* leave the dispute RESOLVED, so it can be attempted again.
C37_ResolvedMeansMoved ==
    ResolutionRecorded =>
        /\ returned.eff.raised = 0
        /\ returned.eff.wallet = 2
        /\ returned.eff.writes = 2

\* no step leaves a dispute RESOLVED that it found in another status, so
\* no call is a resolution that has been recorded
DisputeNeverBecomesResolved ==
    [][ \A d \in 1..Len(disputes) :
            disputes[d].status # "RESOLVED"
                => disputes'[d].status # "RESOLVED" ]_vars

----------------------------------------------------------------------------
(* Withdrawal of the whole balance                                         *)

\* fee = Decimal("100")
WITHDRAW_FEE == 100

\* the handler with the names user_id, uuid4 and httpx bound (a variant for
\* comparison): the deduction, the PENDING transaction, the transfer and
\* the credit back of the two failure branches
withdraw_with_names_bound(l, D) ==
    LET uid == l.arg.uid
        balance == D.wallets[uid].balance
        back == update_wallet_balance(D, uid, l.loc.amount, "balance")
    IN
    CASE l.pc = "select_wallet" ->
            IF D.outage
            THEN Return([l EXCEPT !.eff.raised = @ + 1], D, "NameError")
            ELSE IF balance <= 0 THEN Return(l, D, "HTTP_400")
            ELSE IF balance - WITHDRAW_FEE <= 0 THEN Return(l, D, "HTTP_400")
            ELSE Goto([l EXCEPT !.loc.amount = balance], D, "deduct")
      [] l.pc = "deduct" ->
            rpc_update_wallet_balance(l, D, uid, 0 - l.loc.amount, "balance",
                                      "insert_tx", "except")
      [] l.pc = "insert_tx" ->
            IF D.outage THEN Goto([l EXCEPT !.eff.raised = @ + 1], D, "except")
            ELSE Goto([l EXCEPT !.loc.tx_id = Len(D.transactions) + 1,
                                !.eff.txs = @ + 1],
                      [D EXCEPT !.transactions = Append(@,
                            [NoTx EXCEPT
                                !.tx_ref = << "WITHDRAW-", Len(@) + 1 >>,
                                !.amount = l.loc.amount,
                                !.from_user_id = uid,
                                !.transaction_type = "WITHDRAWAL",
                                !.status = "PENDING"])],
                      IF l.arg.action = "failed" THEN "refund"
                      ELSE "complete_tx")
      [] l.pc = "refund" ->
            rpc_update_wallet_balance(l, D, uid, l.loc.amount, "balance",
                                      "fail_tx", "except")
      [] l.pc = "fail_tx" ->
            IF D.outage THEN Goto([l EXCEPT !.eff.raised = @ + 1], D, "except")
            ELSE Return(Wrote(l),
                        [D EXCEPT !.transactions[l.loc.tx_id].status = "FAILED"],
                        "HTTP_400")
      [] l.pc = "complete_tx" ->
            IF D.outage THEN Goto([l EXCEPT !.eff.raised = @ + 1], D, "except")
            ELSE Goto([Wrote(l) EXCEPT !.eff.raised = @ + 1],
                      [D EXCEPT !.transactions[l.loc.tx_id].status =
                                    "COMPLETED"],
                      "except")
      [] OTHER ->
            IF D.outage \/ ~back.ok THEN Return(l, D, "APIError")
            ELSE Return([l EXCEPT !.eff.wallet = @ + 1], back.D, "HTTP_500")

\* withdraw_all_balance(current_profile, ...): the balance is read and the
\* 400s of an empty or too small balance are raised; the next statement
\* calls uuid4, a name the module does not bind, inside the try; the
\* emergency branch of except Exception then builds its rpc arguments from
\* user_id, a name the function does not bind either, so the NameError
\* leaves the handler before the deduction and before any credit.  A select
\* that raises ends in the same branch.
withdraw_all_balance(l, D) ==
    LET balance == D.wallets[l.arg.uid].balance
        net_amount == balance - WITHDRAW_FEE
    IN
    CASE D.outage ->
            Return([l EXCEPT !.eff.raised = @ + 1], D, "NameError")
      [] ~D.outage /\ balance <= 0 -> Return(l, D, "HTTP_400")
      [] ~D.outage /\ balance > 0 /\ net_amount <= 0 ->
            Return(l, D, "HTTP_400")
      [] OTHER ->
            Return([l EXCEPT !.loc.amount = balance, !.eff.raised = @ + 1],
                   D, "NameError")

\* what the transfer API would answer
TransferOutcomes == {"success", "failed"}

withdraw_all_balance_request(p, uid, outcome) ==
    WalletCall(p, "withdraw_all_balance",
               [NoArg EXCEPT !.uid = uid, !.action = outcome])

withdraw_all_balance_step(p) ==
    OrderStep(p, "withdraw_all_balance", withdraw_all_balance(procs[p], DB))

\* an awaited datastore call of a running withdrawal raises
withdraw_call_raises(p) ==
    OrderStep(p, "withdraw_all_balance",
              withdraw_all_balance(procs[p], Outage))

\* the balances a wallet starts with: below the fee, and well above it
SeedWithdrawBalances == {WITHDRAW_FEE, 2000}

InitWithdraw ==
    /\ \E b \in SeedWithdrawBalances :
        wallets = [ u \in Users |->
            [ balance |-> IF u = "cust" THEN b ELSE 0, escrow_balance |-> 0 ] ]
    /\ transactions = NoRows
    /\ orders = NoRows
    /\ pending = [ k \in {} |-> NoIntent ]
    /\ rq_jobs = NoRows
    /\ platform_commissions = 0
    /\ disputes = NoRows
    /\ escrow_agreements = NoRows
    /\ escrow_agreement_parties = NoRows
    /\ escrow_completion_proposals = NoRows
    /\ withdrawals = NoRows
    /\ materialized = [ r \in Refs |-> Unused ]
    /\ procs = [ p \in Procs |-> Idle ]
    /\ returned = Idle
    /\ calls = 0

\* withdrawals of the whole balance, next to admin adjustments,
\* withdrawal requests and their approvals on the same wallets
NextWithdraw ==
    \/ \E p \in Procs, uid \in {"cust", "vend"}, o \in TransferOutcomes :
            withdraw_all_balance_request(p, uid, o)
    \/ \E p \in Procs, t \in {"credit", "debit"} :
            adjust_wallet_request(p, "cust", t, 2000)
    \/ \E p \in Procs, t \in AmountTypes :
            request_withdrawal_request(p, "cust", 2000, t)
    \/ \E p \in Procs, id \in 1..MaxWithdrawals :
            approve_withdrawal_request(p, id, "admin")
    \/ \E p \in Procs :
            \/ withdraw_all_balance_step(p)
            \/ withdraw_call_raises(p)
            \/ adjust_wallet_step(p)
            \/ adjust_wallet_rpc_raises(p)
            \/ request_withdrawal_step(p)
            \/ approve_withdrawal_step(p)

SpecWithdraw == InitWithdraw /\ [][NextWithdraw]_vars

\* the step belongs to the withdrawal that p runs
WithdrawStep(p) ==
    procs[p].op = "withdraw_all_balance" /\ procs'[p] # procs[p]

\* the balance of the user of p's withdrawal grows in the step
CreditedBack(p) ==
    wallets'[procs[p].arg.uid].balance > wallets[procs[p].arg.uid].balance

\* C38: withdraw_all_balance never leaves the balance higher than it was:
\* a step of it raises the balance only by the amount its deduction has
\* taken, only after that deduction was applied, and at most once, both
\* when the transfer is reported failed and when a step raises.
C38_CreditBackOnlyAfterDeduction ==
    [][ \A p \in Procs :
            ( WithdrawStep(p) /\ CreditedBack(p) ) =>
                /\ procs[p].eff.wallet = 1
                /\ wallets'[procs[p].arg.uid].balance
                        = wallets[procs[p].arg.uid].balance
                            + procs[p].loc.amount
                /\ \A u \in Users \ {procs[p].arg.uid} :
                        wallets'[u] = wallets[u] ]_vars

\* what the handler does with the wallets: nothing at all
WithdrawMovesNothing ==
    [][ \A p \in Procs : WithdrawStep(p) => wallets' = wallets ]_vars

\* a withdrawal of a wallet with funds has raised and ended: the emergency
\* branch has run without a deduction before it and without a credit
WithdrawRaisedSeen ==
    /\ returned.op = "withdraw_all_balance"
    /\ returned.res = "NameError"
    /\ returned.eff.raised = 1
    /\ returned.loc.amount > WITHDRAW_FEE
    /\ returned.eff.wallet = 0
    /\ wallets[returned.arg.uid].balance >= returned.loc.amount

============================================================================
